---- MODULE Spec2Model ----
(***************************************************************************)
(* Model of src/parse_md_file.py: the requirement-table extractor.         *)
(*                                                                         *)
(* A text is a sequence of characters, a character a one-character string. *)
(* The non-ASCII characters the program tests for are written by their     *)
(* code point: "u4EE5" is U+4EE5.  A document is a sequence of lines.      *)
(* Indices into `lines` are the program's own 0-based indices; Line(k) is  *)
(* lines[k] of the program.                                                *)
(***************************************************************************)
EXTENDS Integers, Sequences, FiniteSets, TLC

VARIABLES lines, i, stack, rows, status, blk, hlog, peer

vars == <<lines, i, stack, rows, status, blk, hlog, peer>>

\* F applied to the value v: a local variable of the program, computed once
With(v, F(_)) == F(v)

(***************************************************************************)
(* Characters.                                                             *)
(***************************************************************************)
Digits == {"0", "1", "2", "3", "4", "5", "6", "7", "8", "9"}

LowerLetters ==
    {"a", "b", "c", "d", "e", "f", "g", "h", "i", "j", "k", "l", "m",
     "n", "o", "p", "q", "r", "s", "t", "u", "v", "w", "x", "y", "z"}

UpperLetters ==
    {"A", "B", "C", "D", "E", "F", "G", "H", "I", "J", "K", "L", "M",
     "N", "O", "P", "Q", "R", "S", "T", "U", "V", "W", "X", "Y", "Z"}

\* The CJK letters of the guide phrases and of the platform sentinel.
CJKLetters ==
    {"u4EE5", "u4E0B", "u6761", "u4EF6", "u540C", "u65F6", "u6EE1", "u8DB3",
     "u5176", "u4E00", "u5E73", "u53F0"}

\* "以下条件同时满足" and "以下条件满足其一"
GUIDE_ALL == <<"u4EE5", "u4E0B", "u6761", "u4EF6", "u540C", "u65F6", "u6EE1", "u8DB3">>

GUIDE_ANY == <<"u4EE5", "u4E0B", "u6761", "u4EF6", "u6EE1", "u8DB3", "u5176", "u4E00">>

\* "平台"
PLATFORM == <<"u5E73", "u53F0">>

\* "【" and "】", and the full-width colon "：".
LBRACKET == "u3010"

RBRACKET == "u3011"

FWCOLON == "uFF1A"

\* \s of the regular expressions, str.isspace of str.strip
IsSpace(c) == c \in {" ", "\t"}

\* \d
IsDigit(c) == c \in Digits

\* \w
IsWordChar(c) == c \in Digits \cup LowerLetters \cup UpperLetters \cup CJKLetters \cup {"_"}

(***************************************************************************)
(* The string operations of Python the program uses.                       *)
(***************************************************************************)
RECURSIVE lstrip(_)
lstrip(s) ==
    IF s # <<>> /\ IsSpace(Head(s)) THEN lstrip(Tail(s)) ELSE s

RECURSIVE rstrip(_)
rstrip(s) ==
    IF s # <<>> /\ IsSpace(s[Len(s)]) THEN rstrip(SubSeq(s, 1, Len(s) - 1)) ELSE s

\* str.strip()
strip(s) == rstrip(lstrip(s))

\* s[p:] for a 1-based position p
From(s, p) == SubSeq(s, p, Len(s))

\* whether sub occurs in s at the 1-based position p
StartsAt(s, sub, p) ==
    /\ p >= 1
    /\ p + Len(sub) - 1 <= Len(s)
    /\ SubSeq(s, p, p + Len(sub) - 1) = sub

\* str.startswith
startswith(s, prefix) == StartsAt(s, prefix, 1)

\* str.endswith
endswith(s, suffix) == StartsAt(s, suffix, Len(s) - Len(suffix) + 1)

\* str.find from the 1-based position p: the position of the first
\* occurrence of the non-empty sub at or after p, 0 when there is none
RECURSIVE find(_, _, _)
find(s, sub, p) ==
    IF p + Len(sub) - 1 > Len(s) THEN 0
    ELSE IF StartsAt(s, sub, p) THEN p
    ELSE find(s, sub, p + 1)

\* sub in s
contains(s, sub) == find(s, sub, 1) # 0

\* s.split(sep): the list of the pieces between the occurrences of sep
RECURSIVE split(_, _)
split(s, sep) ==
    With(find(s, sep, 1), LAMBDA p :
        IF p = 0 THEN <<s>>
        ELSE <<SubSeq(s, 1, p - 1)>> \o split(From(s, p + Len(sep)), sep))

\* s.split(sep, 1)
split1(s, sep) ==
    With(find(s, sep, 1), LAMBDA p :
        IF p = 0 THEN <<s>>
        ELSE <<SubSeq(s, 1, p - 1), From(s, p + Len(sep))>>)

\* sep.join(items)
RECURSIVE join(_, _)
join(sep, items) ==
    IF items = <<>> THEN <<>>
    ELSE IF Len(items) = 1 THEN items[1]
    ELSE items[1] \o sep \o join(sep, Tail(items))

\* s.replace(old, new) for a one-character old
RECURSIVE replace(_, _, _)
replace(s, old, new) ==
    IF s = <<>> THEN <<>>
    ELSE (IF Head(s) = old THEN new ELSE <<Head(s)>>) \o replace(Tail(s), old, new)

\* the number of leading characters of s, from position p, that satisfy
\* the character class given as a set
RECURSIVE Span(_, _, _)
Span(s, p, class) ==
    IF p >= 1 /\ p <= Len(s) /\ s[p] \in class THEN 1 + Span(s, p + 1, class) ELSE 0

Spaces == {" ", "\t"}

(***************************************************************************)
(* The line patterns.                                                      *)
(***************************************************************************)
\* the end (the 1-based position after it) of the longest dotted number
\* \d+(?:\.\d+)* that starts at position p of s, given that a digit run
\* ends just before position q
RECURSIVE DottedEnd(_, _)
DottedEnd(s, q) ==
    IF q <= Len(s) /\ s[q] = "." /\ Span(s, q + 1, Digits) >= 1
    THEN DottedEnd(s, q + 1 + Span(s, q + 1, Digits))
    ELSE q

\* the first position q >= p of rest at which (?:【(?P<id>[^】]+)】)\s*$
\* matches (rest has no trailing white space), 0 when there is none: the
\* lazy title ends just before it
RECURSIVE IdStart(_, _)
IdStart(rest, p) ==
    IF p > Len(rest) THEN 0
    ELSE IF /\ rest[p] = LBRACKET
            /\ Len(rest) - p >= 2
            /\ find(rest, <<RBRACKET>>, p + 1) = Len(rest)
         THEN p
    ELSE IdStart(rest, p + 1)

NoHeading == [ok |-> FALSE, num |-> <<>>, title |-> <<>>, id |-> <<>>]

\* HEADING_RE.match(line.strip()) and the dictionary is_heading builds from
\* it; ok is whether the pattern matched, and id is <<>> where the program
\* has None (a matched id is never empty)
HeadingFields(num, rest) ==
    With(IdStart(rest, 1), LAMBDA q :
        [ok |-> TRUE,
         num |-> num,
         title |-> strip(IF q = 0 THEN rest ELSE SubSeq(rest, 1, q - 1)),
         id |-> IF q = 0 THEN <<>> ELSE SubSeq(rest, q + 1, Len(rest) - 1)])

is_heading(line) ==
    With(strip(line), LAMBDA s :
    With(Span(s, 1, Digits), LAMBDA d :
    With(DottedEnd(s, d + 1), LAMBDA e :
    With(Span(s, e, Spaces), LAMBDA w :
        IF d >= 1 /\ e > d + 1 /\ w >= 1
        THEN HeadingFields(SubSeq(s, 1, e - 1), From(s, e + w))
        ELSE NoHeading))))

\* the dictionary is_heading returns, as the stack keeps it
HeadingOf(h) == [num |-> h.num, title |-> h.title, id |-> h.id]

heading_level(heading_num) == Len(split(heading_num, <<".">>))

\* the position after ^\s*\d+\. in line, 0 when the line does not start so
NumberedEnd(line) ==
    With(Span(line, 1, Spaces), LAMBDA w :
    With(Span(line, w + 1, Digits), LAMBDA d :
        IF d >= 1 /\ w + d + 1 <= Len(line) /\ line[w + d + 1] = "."
        THEN w + d + 2
        ELSE 0))

\* BRANCH_HEADER_RE.match(line)
BRANCH_HEADER_RE(line) ==
    With(NumberedEnd(line), LAMBDA p :
    With(p + Span(line, p, Spaces), LAMBDA g :
    With(g + Len(GUIDE_ALL) + Span(line, g + Len(GUIDE_ALL), Spaces), LAMBDA b :
    With(IF b <= Len(line) /\ line[b] \in {":", FWCOLON} THEN b + 1 ELSE b, LAMBDA c :
        /\ p # 0
        /\ StartsAt(line, GUIDE_ALL, g) \/ StartsAt(line, GUIDE_ANY, g)
        /\ c + Span(line, c, Spaces) = Len(line) + 1))))

\* SUBITEM_RE.match(line): matched, and group(1).strip()
SUBITEM_RE(line) ==
    With(NumberedEnd(line), LAMBDA p :
        IF Span(line, 1, Spaces) >= 2 /\ p # 0 /\ p <= Len(line)
        THEN [ok |-> TRUE, item |-> strip(From(line, p))]
        ELSE [ok |-> FALSE, item |-> <<>>])

\* re.match(r"^\s{2,}\S", line)
IndentedLine(line) ==
    Span(line, 1, Spaces) >= 2 /\ Span(line, 1, Spaces) < Len(line)

\* re.match(r"^\s*\d+\.\s*(.*)$", line): matched, and group(1).strip()
NumberedLine(line) ==
    With(NumberedEnd(line), LAMBDA p :
        IF p # 0
        THEN [ok |-> TRUE, item |-> strip(From(line, p))]
        ELSE [ok |-> FALSE, item |-> <<>>])

\* re.match(r"^\s*[CB]平台", line) or re.match(r"^\s*\{?FSM_index", line)
FSM_INDEX == <<"F", "S", "M", "_", "i", "n", "d", "e", "x">>

SentinelLine(line) ==
    With(1 + Span(line, 1, Spaces), LAMBDA p :
        \/ /\ p <= Len(line)
           /\ line[p] \in {"C", "B"}
           /\ StartsAt(line, PLATFORM, p + 1)
        \/ StartsAt(line, FSM_INDEX, p)
        \/ StartsAt(line, <<"{">> \o FSM_INDEX, p))

KW_IF == <<"I", "F">>

KW_THEN == <<"T", "H", "E", "N">>

KW_ELSE == <<"E", "L", "S", "E">>

\* line.strip().startswith("THEN")
IsThen(line) == startswith(strip(line), KW_THEN)

\* not line.strip()
IsBlank(line) == strip(line) = <<>>

(***************************************************************************)
(* Text normalisation.                                                     *)
(***************************************************************************)
strip_braces(text) == replace(replace(text, "{", <<>>), "}", <<>>)

\* re.sub(r"【[^】]*】", "", text)
RECURSIVE strip_brackets_pair(_)
strip_brackets_pair(text) ==
    IF text = <<>> THEN <<>>
    ELSE With(find(text, <<RBRACKET>>, 2), LAMBDA q :
             IF Head(text) = LBRACKET /\ q # 0
             THEN strip_brackets_pair(From(text, q + 1))
             ELSE <<Head(text)>> \o strip_brackets_pair(Tail(text)))

strip_colon(text) == replace(text, FWCOLON, <<":">>)

\* re.sub(r"\s+", " ", text)
RECURSIVE CollapseSpaces(_)
CollapseSpaces(text) ==
    IF text = <<>> THEN <<>>
    ELSE IF IsSpace(Head(text))
         THEN <<" ">> \o CollapseSpaces(From(text, 1 + Span(text, 1, Spaces)))
    ELSE <<Head(text)>> \o CollapseSpaces(Tail(text))

normalize_text(text) ==
    strip(strip_colon(CollapseSpaces(strip_braces(strip_brackets_pair(strip(text))))))

\* whether \bor\b (re.IGNORECASE) matches at position p of cond
OrAt(cond, p) ==
    /\ p + 1 <= Len(cond)
    /\ cond[p] \in {"o", "O"}
    /\ cond[p + 1] \in {"r", "R"}
    /\ p = 1 \/ ~IsWordChar(cond[p - 1])
    /\ p + 2 > Len(cond) \/ ~IsWordChar(cond[p + 2])

\* re.split(r"\bor\b", cond, flags=re.IGNORECASE), from position p on with
\* the current piece starting at position b
RECURSIVE SplitOr(_, _, _)
SplitOr(cond, b, p) ==
    IF p > Len(cond) THEN <<SubSeq(cond, b, Len(cond))>>
    ELSE IF OrAt(cond, p)
         THEN <<SubSeq(cond, b, p - 1)>> \o SplitOr(cond, p + 2, p + 2)
    ELSE SplitOr(cond, b, p + 1)

\* [p.strip() for p in parts if p.strip()]
RECURSIVE StripNonEmpty(_)
StripNonEmpty(parts) ==
    IF parts = <<>> THEN <<>>
    ELSE With(strip(Head(parts)), LAMBDA part :
             (IF part # <<>> THEN <<part>> ELSE <<>>) \o StripNonEmpty(Tail(parts)))

split_conditions_by_or(cond) == StripNonEmpty(SplitOr(cond, 1, 1))

(***************************************************************************)
(* Regular expressions.  A pattern is a tree: a character class, a         *)
(* concatenation, an ordered alternation, a repetition (greedy or lazy), a *)
(* named group, a look-ahead, or the end of the text.  Ends lists the ways *)
(* a pattern matches from the 1-based position pos of s in the order in    *)
(* which the backtracking matcher of Python's re tries them (the first of  *)
(* an alternation first, one more repetition first when greedy, one less   *)
(* when lazy): each way is the position after the match and the groups     *)
(* closed so far (name :> <<first, after>>).  The match re reports is the  *)
(* first way to match the whole pattern.                                   *)
(***************************************************************************)
\* F of the value v, v being computed first
Then(v, F(_)) == IF v = v THEN F(v) ELSE F(v)

Ch(S) == [t |-> "in", s |-> S]

NotCh(S) == [t |-> "notin", s |-> S]

\* the sequences of a sequence joined in their order, one half of them
\* after the other
RECURSIVE Flatten(_)
Flatten(ss) ==
    IF ss = <<>> THEN <<>>
    ELSE IF Len(ss) = 1 THEN ss[1]
    ELSE Flatten(SubSeq(ss, 1, Len(ss) \div 2))
         \o Flatten(SubSeq(ss, Len(ss) \div 2 + 1, Len(ss)))

\* a concatenation; the nodes of a concatenation inside it are put in line
Cat(a) ==
    [t |-> "cat",
     a |-> Flatten([k \in 1..Len(a) |-> IF a[k].t = "cat" THEN a[k].a ELSE <<a[k]>>])]

Alt(a) == [t |-> "alt", a |-> a]

Rep(r, min, many, greedy) ==
    [t |-> "rep", r |-> r, min |-> min, many |-> many, greedy |-> greedy]

\* r*, r+, r?, r*? and r+?
Star(r) == Rep(r, 0, TRUE, TRUE)

Plus(r) == Rep(r, 1, TRUE, TRUE)

Opt(r) == Rep(r, 0, FALSE, TRUE)

LazyStar(r) == Rep(r, 0, TRUE, FALSE)

LazyPlus(r) == Rep(r, 1, TRUE, FALSE)

\* (?P<name>r): the group is opened, r is matched, the group is closed
Grp(name, r) == Cat(<<[t |-> "open", name |-> name], r, [t |-> "close", name |-> name]>>)

\* (?=r) and (?!r)
Ahead(r) == [t |-> "ahead", r |-> r, neg |-> FALSE]

NotAhead(r) == [t |-> "ahead", r |-> r, neg |-> TRUE]

\* $
AtEnd == [t |-> "end"]

\* a literal text
Lit(str) == Cat([k \in 1..Len(str) |-> Ch({str[k]})])

Way(pos, caps) == [pos |-> pos, caps |-> caps]

\* whether the character ch is in the character class n
InClass(n, ch) == (ch \in n.s) = (n.t = "in")

\* the number of characters of s from the position pos on that are in the
\* character class n
ClassRun(n, s, pos) ==
    CHOOSE k \in 0..(Len(s) + 1 - pos) :
        /\ \A j \in pos..(pos + k - 1) : InClass(n, s[j])
        /\ pos + k <= Len(s) => ~InClass(n, s[pos + k])

\* the ways to repeat the character class n.r: every length from the
\* longest run down to n.min when greedy, from n.min up when lazy (every
\* pattern the program repeats without bound is a character class)
ClassRep(n, s, pos, caps) ==
    With(ClassRun(n.r, s, pos), LAMBDA run :
        [j \in 1..(run - n.min + 1) |->
            Way(IF n.greedy THEN pos + run + 1 - j ELSE pos + n.min + j - 1, caps)])

RECURSIVE Ends(_, _, _, _)
RECURSIVE CatEnds(_, _, _, _)
\* the ways to match the nodes a[k], a[k+1], .. one after the other, ways
\* being the ways to match the nodes before them
CatEnds(a, k, s, ways) ==
    IF ways = <<>> \/ k > Len(a) THEN ways
    ELSE CatEnds(a, k + 1, s,
                 Flatten([j \in 1..Len(ways) |-> Ends(a[k], s, ways[j].pos, ways[j].caps)]))

Ends(n, s, pos, caps) ==
    CASE n.t \in {"in", "notin"} ->
            IF pos <= Len(s) /\ InClass(n, s[pos]) THEN <<Way(pos + 1, caps)>> ELSE <<>>
      [] n.t = "cat" -> CatEnds(n.a, 1, s, <<Way(pos, caps)>>)
      [] n.t = "alt" -> Flatten([j \in 1..Len(n.a) |-> Ends(n.a[j], s, pos, caps)])
      [] n.t = "rep" /\ n.many -> ClassRep(n, s, pos, caps)
      [] n.t = "rep" /\ ~n.many ->
            IF n.greedy THEN Ends(n.r, s, pos, caps) \o <<Way(pos, caps)>>
            ELSE <<Way(pos, caps)>> \o Ends(n.r, s, pos, caps)
      [] n.t = "open" -> <<Way(pos, (n.name :> <<pos, 0>>) @@ caps)>>
      [] n.t = "close" -> <<Way(pos, (n.name :> <<caps[n.name][1], pos>>) @@ caps)>>
      [] n.t = "ahead" ->
            IF (Ends(n.r, s, pos, caps) # <<>>) # n.neg THEN <<Way(pos, caps)>> ELSE <<>>
      [] n.t = "end" -> IF pos = Len(s) + 1 THEN <<Way(pos, caps)>> ELSE <<>>

\* a match object: whether re matches s from the position p, and then where
\* the match starts and ends (the position after it) and its groups
MatchAt(re, s, p) ==
    With(Ends(re, s, p, <<>>), LAMBDA es :
        IF es = <<>> THEN [ok |-> FALSE, start |-> 0, end |-> 0, caps |-> <<>>]
        ELSE [ok |-> TRUE, start |-> p, end |-> es[1].pos, caps |-> es[1].caps])

\* re.match(s)
match(re, s) == MatchAt(re, s, 1)

\* re.search(s), looking from the position p on: the match at the first
\* position from which re matches
search(re, s, p) ==
    With({q \in p..(Len(s) + 1) : MatchAt(re, s, q).ok}, LAMBDA found :
        IF found = {} THEN [ok |-> FALSE, start |-> 0, end |-> 0, caps |-> <<>>]
        ELSE MatchAt(re, s, CHOOSE q \in found : \A r \in found : q <= r))

\* the matches re.sub replaces: the leftmost match, then the leftmost one
\* after its end, and so on (no pattern of the program matches the empty
\* text)
RECURSIVE finditer(_, _, _)
finditer(re, s, p) ==
    With(search(re, s, p), LAMBDA m :
        IF ~m.ok \/ m.end = m.start THEN <<>>
        ELSE <<m>> \o finditer(re, s, m.end))

\* m.group(name); a group that took no part in the match gives None, which
\* the program turns into "" (m.group(..) or "")
group(s, m, name) ==
    IF name \in DOMAIN m.caps
    THEN SubSeq(s, m.caps[name][1], m.caps[name][2] - 1) ELSE <<>>

\* m.group(0)
group0(s, m) == SubSeq(s, m.start, m.end - 1)

\* s with the k-th match and the matches after it replaced by their
\* replacement, from the position p on
RECURSIVE Replaced(_, _, _, _, _)
Replaced(s, ms, repl, k, p) ==
    IF k > Len(ms) THEN From(s, p)
    ELSE SubSeq(s, p, ms[k].start - 1) \o repl[k]
         \o Replaced(s, ms, repl, k + 1, ms[k].end)

\* re.sub(repl, s), Repl being the replacement function
re_sub(re, Repl(_, _), s) ==
    Then(finditer(re, s, 1), LAMBDA ms :
        Replaced(s, ms, [k \in 1..Len(ms) |-> Repl(s, ms[k])], 1, 1))

(***************************************************************************)
(* _normalize_explanation_suffix_once.                                     *)
(***************************************************************************)
\* the full-width "（" "）" "，", the quotes U+201C and U+201D, "²", "°", "µ"
FW_LPAREN == "uFF08"

FW_RPAREN == "uFF09"

FW_COMMA == "uFF0C"

LDQUOTE == "u201C"

RDQUOTE == "u201D"

SUPER_TWO == "u00B2"

DEGREE == "u00B0"

MICRO == "u00B5"

Letters == LowerLetters \cup UpperLetters

HexDigits == Digits \cup {"a", "b", "c", "d", "e", "f", "A", "B", "C", "D", "E", "F"}

\* [A-Za-z0-9_\-]
NameChars == Letters \cup Digits \cup {"_", "-"}

\* [()（）] and [()（）:]
Parens == {"(", ")", FW_LPAREN, FW_RPAREN}

ParensColon == Parens \cup {":"}

\* \s*
WS == Star(Ch(Spaces))

\* The comparison operators of _EXPL_HEAD_RE that are written in ASCII, in
\* the order of the alternation.
OPERATORS ==
    <<<<"=", "=">>, <<">", "=">>, <<"<", "=">>, <<"!", "=">>, <<"=">>, <<">">>, <<"<">>>>

\* all the operators of _EXPL_HEAD_RE: the ASCII ones, then the full-width
\* ">=" and "<=" (U+FF1E U+FF1D, U+FF1C U+FF1D), U+2265, U+2264, U+2260 and
\* the full-width ">", "<", "="
EXPL_OPERATORS ==
    OPERATORS \o <<<<"uFF1E", "uFF1D">>, <<"uFF1C", "uFF1D">>, <<"u2265">>, <<"u2264">>,
                   <<"u2260">>, <<"uFF1E">>, <<"uFF1C">>, <<"uFF1D">>>>

\* the alternation of the texts of a list
AnyOf(texts) == Alt([k \in 1..Len(texts) |-> Lit(texts[k])])

\* \{[^{}]+\}
Braced == Cat(<<Ch({"{"}), Plus(NotCh({"{", "}"})), Ch({"}"})>>)

\* _EXPL_HEAD_RE
EXPL_HEAD_RE == Grp("head", Cat(<<Braced, WS, AnyOf(EXPL_OPERATORS), WS>>))

\* the two letters a letter matches under re.IGNORECASE
ALPHABET_LOWER ==
    <<"a", "b", "c", "d", "e", "f", "g", "h", "i", "j", "k", "l", "m",
      "n", "o", "p", "q", "r", "s", "t", "u", "v", "w", "x", "y", "z">>

ALPHABET_UPPER ==
    <<"A", "B", "C", "D", "E", "F", "G", "H", "I", "J", "K", "L", "M",
      "N", "O", "P", "Q", "R", "S", "T", "U", "V", "W", "X", "Y", "Z">>

BothCases(c) ==
    {c} \cup {ALPHABET_UPPER[k] : k \in {j \in 1..Len(ALPHABET_LOWER) : ALPHABET_LOWER[j] = c}}

\* a literal text under re.IGNORECASE
LitAnyCase(str) == Cat([k \in 1..Len(str) |-> Ch(BothCases(str[k]))])

\* str.lower()
lower(s) ==
    [k \in 1..Len(s) |->
        IF s[k] \in UpperLetters
        THEN ALPHABET_LOWER[CHOOSE j \in 1..Len(ALPHABET_UPPER) : ALPHABET_UPPER[j] = s[k]]
        ELSE s[k]]

\* the units of unit_compact_value_re, in the order of the alternation
UNITS ==
    <<<<"k", "p", "h">>, <<"k", "m", "h">>, <<"k", "m", "p", "h">>, <<"m", "p", "h">>,
      <<"r", "p", "m">>, <<"k", "p", "a">>, <<"p", "a">>, <<"b", "a", "r">>,
      <<"h", "z">>, <<"k", "h", "z">>, <<"m", "h", "z">>, <<"g", "h", "z">>, <<"v">>,
      <<"a">>, <<"m", "a">>, <<"u", "a">>, <<"m", "v">>, <<"g">>, <<"k", "g">>, <<"n">>>>

\* [-+]?\d+(?:\.\d+)?
Number ==
    Cat(<<Opt(Ch({"-", "+"})), Plus(Ch(Digits)), Opt(Cat(<<Ch({"."}), Plus(Ch(Digits))>>))>>)

unit_compact_value_re ==
    Cat(<<Grp("num", Number), WS,
          Grp("unit", Alt([k \in 1..Len(UNITS) |-> LitAnyCase(UNITS[k])])), AtEnd>>)

insert_space_number_unit(val) ==
    With(match(unit_compact_value_re, val), LAMBDA m :
        IF ~m.ok THEN val
        ELSE group(val, m, "num") \o <<" ">> \o group(val, m, "unit"))

\* (?:\(\s*(?P<a>[^()（）:]+?)\s*\)|（\s*(?P<b>[^()（）:]+?)\s*）)
Annotation(a, b) ==
    Alt(<<Cat(<<Ch({"("}), WS, Grp(a, LazyPlus(NotCh(ParensColon))), WS, Ch({")"})>>),
          Cat(<<Ch({FW_LPAREN}), WS, Grp(b, LazyPlus(NotCh(ParensColon))), WS,
                Ch({FW_RPAREN})>>)>>)

\* (?=(?:\s*(?:&&|\|\|)|\s*$))
BeforeBoolOrEnd ==
    Ahead(Alt(<<Cat(<<WS, Alt(<<Lit(<<"&", "&">>), Lit(<<"|", "|">>)>>)>>),
                Cat(<<WS, AtEnd>>)>>))

\* (?=(?:&&|\|\||$))
AtBoolOrEnd == Ahead(Alt(<<Lit(<<"&", "&">>), Lit(<<"|", "|">>), AtEnd>>))

\* [^\s()（）]+, a value that may hold a colon
ValueWithColon == Plus(NotCh(Spaces \cup Parens))

\* [^\s:()（）]+
Value == Plus(NotCh(Spaces \cup ParensColon))

\* a or b of two optional groups, stripped
EitherGroup(s, m, a, b) ==
    strip(IF group(s, m, a) # <<>> THEN group(s, m, a) ELSE group(s, m, b))

pattern_sig_annot_full ==
    Cat(<<Grp("braced", Braced), WS, Annotation("sigexpl", "sigexpl2"), WS,
          Grp("op", AnyOf(EXPL_OPERATORS)), WS, Grp("val", Value), WS,
          Opt(Annotation("valexpl", "valexpl2")), BeforeBoolOrEnd>>)

repl_sig_annot_full(s, m) ==
    With(group(s, m, "braced") \o <<" ">> \o group(s, m, "op") \o <<" ">>
         \o insert_space_number_unit(group(s, m, "val")), LAMBDA cmp :
    With(EitherGroup(s, m, "sigexpl", "sigexpl2"), LAMBDA sig_expl :
    With(EitherGroup(s, m, "valexpl", "valexpl2"), LAMBDA val_expl :
    With(IF val_expl # <<>> /\ sig_expl # <<>> THEN val_expl \o <<"-">> \o sig_expl
         ELSE IF val_expl # <<>> THEN val_expl ELSE sig_expl, LAMBDA expl :
        IF expl # <<>> THEN cmp \o <<":", " ">> \o expl ELSE cmp))))

pattern_sig_annot_simple ==
    Cat(<<Grp("braced", Braced), WS, Annotation("sigexpl", "sigexpl2"), WS,
          Grp("op", AnyOf(EXPL_OPERATORS)), WS, Grp("val", Value), BeforeBoolOrEnd>>)

repl_sig_annot_simple(s, m) ==
    With(group(s, m, "braced") \o <<" ">> \o group(s, m, "op") \o <<" ">>
         \o insert_space_number_unit(group(s, m, "val")), LAMBDA cmp :
    With(EitherGroup(s, m, "sigexpl", "sigexpl2"), LAMBDA sig_expl :
        IF sig_expl # <<>> THEN cmp \o <<":", " ">> \o sig_expl ELSE cmp))

\* f"{head}{val}: {expl}" with the value spaced and the explanation stripped
HeadValueExpl(s, m) ==
    group(s, m, "head") \o insert_space_number_unit(group(s, m, "val"))
    \o <<":", " ">> \o strip(group(s, m, "expl"))

pattern_paren ==
    Cat(<<EXPL_HEAD_RE, Grp("val", Value), WS, Ch({"(", FW_LPAREN}), WS,
          Grp("expl", LazyPlus(NotCh(ParensColon))), WS, Ch({")", FW_RPAREN})>>)

repl_paren(s, m) ==
    IF contains(strip(group(s, m, "expl")), <<"&", "&">>)
       \/ contains(strip(group(s, m, "expl")), <<"|", "|">>)
    THEN group0(s, m)
    ELSE HeadValueExpl(s, m)

pattern_nospace ==
    Cat(<<EXPL_HEAD_RE,
          Grp("val",
              Alt(<<Cat(<<Lit(<<"0", "x">>), LazyPlus(Ch(HexDigits)),
                          Ahead(Alt(<<Cat(<<Ch(UpperLetters), Ch(LowerLetters)>>),
                                      NotCh(HexDigits)>>))>>),
                    Cat(<<Number, Opt(Ch({"%"})),
                          NotAhead(Cat(<<Ch({"x", "X"}), Ch(HexDigits)>>))>>)>>)),
          Grp("expl",
              Cat(<<Alt(<<Cat(<<Ch(Letters), Star(Ch(NameChars))>>),
                          Cat(<<Ch(CJKLetters), Star(Ch(CJKLetters \cup NameChars))>>)>>),
                    Opt(Cat(<<Plus(Ch(Spaces)), Ch(Letters \cup CJKLetters),
                              Star(NotCh(ParensColon))>>))>>))>>)

repl_nospace(s, m) ==
    IF m.end <= Len(s) /\ s[m.end] \in {"/", SUPER_TWO, "^"}
    THEN group0(s, m)
    ELSE HeadValueExpl(s, m)

pattern_comma ==
    Cat(<<EXPL_HEAD_RE,
          Grp("val", LazyPlus(NotCh(Parens \cup {",", FW_COMMA, ":", FWCOLON, "\""}))),
          WS, Ch({FW_COMMA, ","}), WS,
          Grp("expl", LazyStar(NotCh(Parens \cup {"\""}))), WS, AtBoolOrEnd>>)

repl_comma(s, m) ==
    With(insert_space_number_unit(strip(group(s, m, "val"))), LAMBDA val :
    With(strip(group(s, m, "expl")), LAMBDA expl :
        IF expl = <<>> \/ contains(val, <<":">>) \/ contains(val, <<FWCOLON>>)
        THEN group0(s, m)
        ELSE group(s, m, "head") \o val \o <<":", " ">> \o expl))

pattern_quoted ==
    Cat(<<EXPL_HEAD_RE, Grp("val", Plus(NotCh(Spaces \cup ParensColon \cup {"\""}))), WS,
          Alt(<<Cat(<<Ch({"\""}), Grp("expl1", Plus(NotCh({"\""}))), Ch({"\""})>>),
                Cat(<<Ch({LDQUOTE}), Grp("expl2", Plus(NotCh({RDQUOTE}))),
                      Ch({RDQUOTE})>>)>>)>>)

repl_quoted(s, m) ==
    group(s, m, "head") \o insert_space_number_unit(group(s, m, "val"))
    \o <<":", "\"">> \o EitherGroup(s, m, "expl1", "expl2") \o <<"\"">>

pattern_space ==
    Cat(<<EXPL_HEAD_RE, Grp("val", Value), Plus(Ch(Spaces)),
          Grp("expl", Cat(<<Ch(Letters \cup CJKLetters), LazyStar(NotCh(ParensColon))>>)),
          WS, AtBoolOrEnd>>)

repl_space(s, m) ==
    IF lower(strip(group(s, m, "expl"))) \in {<<"a", "n", "d">>, <<"o", "r">>}
    THEN group0(s, m)
    ELSE HeadValueExpl(s, m)

_normalize_explanation_suffix_once(text) ==
    Then(re_sub(pattern_sig_annot_full, repl_sig_annot_full, text), LAMBDA t1 :
    Then(re_sub(pattern_sig_annot_simple, repl_sig_annot_simple, t1), LAMBDA t2 :
    Then(re_sub(pattern_paren, repl_paren, t2), LAMBDA t3 :
    Then(re_sub(pattern_nospace, repl_nospace, t3), LAMBDA t4 :
    Then(re_sub(pattern_comma, repl_comma, t4), LAMBDA t5 :
    Then(re_sub(pattern_quoted, repl_quoted, t5), LAMBDA t6 :
        re_sub(pattern_space, repl_space, t6)))))))

\* the normalised text with the white space at its ends taken off
NormalizeStripped(text) == strip(_normalize_explanation_suffix_once(text))

normalize_explanation_suffix(text) == _normalize_explanation_suffix_once(text)

(***************************************************************************)
(* handle_parse_conditions_item.                                           *)
(***************************************************************************)
\* (?P<prefix>.*?\S)\s+(?=\{[^{}]+\}\s*(?:==|>=|<=|!=|=|>|<))
PREFIXED_SIGNAL_RE ==
    Cat(<<Grp("prefix", Cat(<<LazyStar(NotCh({"\n"})), NotCh(Spaces)>>)),
          Plus(Ch(Spaces)), Ahead(Cat(<<Braced, WS, AnyOf(OPERATORS)>>))>>)

insert_colon_before_signal_if_prefixed(text) ==
    With(search(PREFIXED_SIGNAL_RE, text, 1), LAMBDA m :
        IF ~m.ok THEN text
        ELSE With(group(text, m, "prefix"), LAMBDA prefix :
            IF \/ prefix[Len(prefix)] \in {":", FWCOLON, "(", FW_LPAREN, "[", LBRACKET}
               \/ endswith(prefix, <<"&", "&">>)
               \/ endswith(prefix, <<"|", "|">>)
            THEN text
            ELSE prefix \o <<":">> \o lstrip(From(text, m.end))))

\* the number of characters of s that are in class, going left from the
\* position p
RECURSIVE SpanLeft(_, _, _)
SpanLeft(s, p, class) ==
    IF p >= 1 /\ p <= Len(s) /\ s[p] \in class THEN 1 + SpanLeft(s, p - 1, class) ELSE 0

\* ch.isalpha() or ch in "°µ"
UnitChars == Letters \cup CJKLetters \cup {DEGREE, MICRO}

\* is_unit_slash_at for the 1-based position p of a "/"
is_unit_slash_at(s, p) ==
    With(p - 1 - SpanLeft(s, p - 1, Spaces), LAMBDA li :
    With(p + 1 + Span(s, p + 1, Spaces), LAMBDA ri :
        /\ ~(p <= 1 \/ p >= Len(s))
        /\ ~(li < 1 \/ ri > Len(s))
        /\ s[li] \in UnitChars
        /\ s[ri] \in UnitChars
        /\ With(li - SpanLeft(s, li, UnitChars), LAMBDA lstart :
           With(lstart - SpanLeft(s, lstart, Spaces), LAMBDA pj :
               pj >= 1 /\ (s[pj] \in Digits \/ s[pj] \in {".", DEGREE})))))

\* the depth of parentheses after the character ch read at the depth depth
DepthAfter(ch, depth) ==
    IF ch \in {"(", FW_LPAREN} THEN depth + 1
    ELSE IF ch \in {")", FW_RPAREN} THEN (IF depth - 1 > 0 THEN depth - 1 ELSE 0)
    ELSE depth

\* whether the character at the position p of s, read at the depth depth,
\* is a slash that splits
SplittingSlash(s, p, depth) ==
    s[p] = "/" /\ depth = 0 /\ ~is_unit_slash_at(s, p)

\* find_top_level_slash: the 1-based position, 0 for -1; the loop from the
\* position p on at the depth depth
RECURSIVE SlashFrom(_, _, _)
SlashFrom(s, p, depth) ==
    IF p > Len(s) THEN 0
    ELSE IF SplittingSlash(s, p, depth) THEN p
    ELSE SlashFrom(s, p + 1, DepthAfter(s[p], depth))

find_top_level_slash(s) == SlashFrom(s, 1, 0)

\* parts with the stripped buf appended when it is not empty
Flush(parts, buf) == IF strip(buf) # <<>> THEN Append(parts, strip(buf)) ELSE parts

\* split_by_top_level_slash: the loop from the position p on
RECURSIVE SplitFrom(_, _, _, _, _)
SplitFrom(s, p, depth, buf, parts) ==
    IF p > Len(s) THEN Flush(parts, buf)
    ELSE IF SplittingSlash(s, p, depth)
         THEN SplitFrom(s, p + 1, depth, <<>>, Flush(parts, buf))
    ELSE SplitFrom(s, p + 1, DepthAfter(s[p], depth), Append(buf, s[p]), parts)

split_by_top_level_slash(s) == SplitFrom(s, 1, 0, <<>>, <<>>)

\* ^\s*([A-Za-z][A-Za-z0-9_]*)\s*:\s*([^:]+?)\s*$
LABEL_VALUE_RE ==
    Cat(<<WS, Grp("label", Cat(<<Ch(Letters), Star(Ch(Letters \cup Digits \cup {"_"}))>>)),
          WS, Ch({":"}), WS, Grp("value", LazyPlus(NotCh({":"}))), WS, AtEnd>>)

normalize_label_value(expr) ==
    With(match(LABEL_VALUE_RE, expr), LAMBDA m :
        IF m.ok
        THEN strip(group(expr, m, "value")) \o <<":">> \o strip(group(expr, m, "label"))
        ELSE strip(expr))

\* ops of the slash expansion, in the order they are looked for
SLASH_OPS ==
    <<<<"=", "=">>, <<">", "=">>, <<"<", "=">>, <<"!", "=">>, <<">">>, <<"<">>, <<"=">>>>

\* the index in SLASH_OPS of the first operator, from the k-th on, that
\* occurs in pre; 0 when none does
RECURSIVE OpFound(_, _)
OpFound(pre, k) ==
    IF k > Len(SLASH_OPS) THEN 0
    ELSE IF contains(pre, SLASH_OPS[k]) THEN k
    ELSE OpFound(pre, k + 1)

\* [normalize_label_value(v) for v in rhs_alternatives_raw if v.strip()]
RECURSIVE LabelValues(_)
LabelValues(raw) ==
    IF raw = <<>> THEN <<>>
    ELSE (IF strip(Head(raw)) # <<>> THEN <<normalize_label_value(Head(raw))>> ELSE <<>>)
         \o LabelValues(Tail(raw))

\* the expansion of the item at its first top-level slash, at the position
\* slash_idx: ok is whether the item is expanded, out the expression
SlashExpansion(item, slash_idx) ==
    With(strip(SubSeq(item, 1, slash_idx - 1)), LAMBDA pre :
    With(OpFound(pre, 1), LAMBDA k :
        IF k = 0 THEN [ok |-> FALSE, out |-> <<>>]
        ELSE
        With(strip(split1(pre, SLASH_OPS[k])[1]), LAMBDA header :
            IF ~match(Cat(<<Braced, AtEnd>>), header).ok
            THEN [ok |-> FALSE, out |-> <<>>]
            ELSE
            With(LabelValues(<<strip(split1(pre, SLASH_OPS[k])[2])>>
                             \o split_by_top_level_slash(strip(From(item, slash_idx + 1)))),
                 LAMBDA rhs_alternatives :
                [ok |-> TRUE,
                 out |-> <<"(">>
                         \o join(<<" ", "|", "|", " ">>,
                                 [n \in 1..Len(rhs_alternatives) |->
                                     header \o <<" ">> \o SLASH_OPS[k] \o <<" ">>
                                     \o rhs_alternatives[n]])
                         \o <<")">>]))))

\* the item in parentheses when it holds "&&", "||" or "&"
Wrapped(item) ==
    IF contains(item, <<"&">>) \/ contains(item, <<"|", "|">>)
    THEN <<"(">> \o item \o <<")">> ELSE item

\* the expression handle_parse_conditions_item normalises, for the item
\* after the colon is inserted: its slash expansion, or the item wrapped
Expression(item) ==
    With(find_top_level_slash(item), LAMBDA slash_idx :
        IF slash_idx # 0 /\ SlashExpansion(item, slash_idx).ok
        THEN SlashExpansion(item, slash_idx).out
        ELSE Wrapped(item))

handle_parse_conditions_item(item) ==
    Then(insert_colon_before_signal_if_prefixed(item), LAMBDA prefixed :
    Then(Expression(prefixed), LAMBDA expr :
        normalize_explanation_suffix(expr)))

\* [handle_parse_conditions_item(p) for p in parts]
RECURSIVE HandleAll(_)
HandleAll(parts) ==
    IF parts = <<>> THEN <<>>
    ELSE <<handle_parse_conditions_item(Head(parts))>> \o HandleAll(Tail(parts))

OR_JOIN == <<" ", "|", "|", " ">>

AND_JOIN == <<" ", "&", "&", " ">>

AGG_AND == <<"&", "&">>

AGG_OR == <<"|", "|">>

\* the text an item contributes: its alternatives around the keyword "or",
\* each handled, joined by " || "; the item itself, handled, when it has
\* at most one part
HandledItem(item) ==
    With(split_conditions_by_or(item), LAMBDA parts :
        IF Len(parts) > 1 THEN join(OR_JOIN, HandleAll(parts))
        ELSE handle_parse_conditions_item(item))

(***************************************************************************)
(* parse_conditions.  L is the list of lines and At(L, k) the program's    *)
(* L[k]; every loop of the program is a recursive operator over its index  *)
(* and its accumulators.                                                   *)
(***************************************************************************)
At(L, k) == L[k + 1]

\* f"({f' {agg} '.join(subitems)})"
Group(agg, subitems) ==
    <<"(">> \o join(<<" ">> \o agg \o <<" ">>, subitems) \o <<")">>

\* the aggregator of a branch header or guide line
PhraseAgg(line) == IF contains(line, GUIDE_ALL) THEN AGG_AND ELSE AGG_OR

\* the loop that collects the sub-items of a branch (in parse_nested), from
\* index k on: the index it stops at and the sub-items
RECURSIVE collect_subitems(_, _, _)
collect_subitems(L, k, subitems) ==
    IF k >= Len(L) THEN [i |-> k, subitems |-> subitems]
    ELSE With(At(L, k), LAMBDA sub_line :
         With(SUBITEM_RE(sub_line), LAMBDA m_sub :
             IF IsThen(sub_line) THEN [i |-> k, subitems |-> subitems]
             ELSE IF BRANCH_HEADER_RE(sub_line) THEN [i |-> k, subitems |-> subitems]
             ELSE IF ~m_sub.ok
                  THEN IF IndentedLine(sub_line)
                       THEN collect_subitems(L, k + 1,
                                Append(subitems, HandledItem(strip(sub_line))))
                       ELSE IF IsBlank(sub_line)
                            THEN collect_subitems(L, k + 1, subitems)
                       ELSE [i |-> k, subitems |-> subitems]
             ELSE collect_subitems(L, k + 1, Append(subitems, HandledItem(m_sub.item)))))

\* the same loop in the flat scan, under a branch header
flat_subitems(L, k) == collect_subitems(L, k, <<>>)

\* the same loop in the flat scan, as the lookahead after an OR guide line
lookahead_subitems(L, k) == collect_subitems(L, k, <<>>)

\* a branch whose sub-items are joined by "&&" whatever its header says
BranchOfAnd(line, subitems) ==
    IF subitems # <<>> THEN Group(AGG_AND, subitems) ELSE <<>>

\* the branch a header line of parse_nested appends: its sub-items in
\* parentheses, "" when it has none
BranchOf(line, subitems) ==
    IF subitems # <<>> THEN Group(PhraseAgg(line), subitems) ELSE <<>>

\* the branch a plain numbered line of parse_nested appends
PlainBranch(item) ==
    With(split_conditions_by_or(item), LAMBDA parts :
        IF Len(parts) > 1
        THEN <<"(">> \o join(OR_JOIN, HandleAll(parts)) \o <<")">>
        ELSE handle_parse_conditions_item(item))

\* the main loop of parse_nested: the index it stops at and the branches
RECURSIVE nested_loop(_, _, _)
nested_loop(L, k, branches) ==
    IF k >= Len(L) THEN [i |-> k, branches |-> branches]
    ELSE With(At(L, k), LAMBDA line :
             IF IsThen(line) THEN [i |-> k, branches |-> branches]
             ELSE IF BRANCH_HEADER_RE(line)
                  THEN With(collect_subitems(L, k + 1, <<>>), LAMBDA sub :
                           nested_loop(L, sub.i,
                                       Append(branches, BranchOf(line, sub.subitems))))
             ELSE IF IsBlank(line) THEN nested_loop(L, k + 1, branches)
             ELSE IF is_heading(line).ok THEN [i |-> k, branches |-> branches]
             ELSE IF SentinelLine(line) THEN [i |-> k, branches |-> branches]
             ELSE With(NumberedLine(line), LAMBDA m_plain :
                      IF m_plain.ok
                      THEN nested_loop(L, k + 1,
                                       Append(branches, PlainBranch(m_plain.item)))
                      ELSE [i |-> k, branches |-> branches]))

\* [b for b in branches if b]
RECURSIVE NonEmpty(_)
NonEmpty(items) ==
    IF items = <<>> THEN <<>>
    ELSE (IF Head(items) # <<>> THEN <<Head(items)>> ELSE <<>>) \o NonEmpty(Tail(items))

\* parse_nested(i, top_agg): (cond, i)
parse_nested(L, k, top_agg) ==
    With(nested_loop(L, k, <<>>), LAMBDA r :
        [cond |-> join(<<" ">> \o (IF top_agg # <<>> THEN top_agg ELSE AND_JOIN)
                       \o <<" ">>,
                       NonEmpty(r.branches)),
         i |-> r.i])

\* the first index >= k of a line that is not blank, Len(L) when none
RECURSIVE SkipBlank(_, _)
SkipBlank(L, k) ==
    IF k < Len(L) /\ IsBlank(At(L, k)) THEN SkipBlank(L, k + 1) ELSE k

\* after parse_nested: forward to the THEN line, an IF line or a heading
RECURSIVE SeekThen(_, _)
SeekThen(L, mpos) ==
    IF mpos < Len(L) /\ ~IsThen(At(L, mpos))
    THEN IF strip(At(L, mpos)) = KW_IF THEN mpos
         ELSE IF is_heading(At(L, mpos)).ok THEN mpos
         ELSE SeekThen(L, mpos + 1)
    ELSE mpos

HasGuide(line) == contains(line, GUIDE_ALL) \/ contains(line, GUIDE_ANY)

\* the item of a plain condition line, its numbering removed
PlainItem(line) ==
    With(NumberedLine(line), LAMBDA m : IF m.ok THEN m.item ELSE strip(line))

\* the flat scan of parse_conditions, from index k on: the index it stops
\* at, the collected items and the aggregator set (<<>> for None).
\* flat_guide is the part of an iteration that recognises the guide lines;
\* it starts with the index k2 the iteration has reached: k, or past the
\* lines the branch-header step looked at when that step found no sub-item
\* and fell through with `line` still the header.
RECURSIVE flat_loop(_, _, _, _)
RECURSIVE flat_guide(_, _, _, _, _)
flat_guide(L, k2, line, collected, aggregator_set) ==
    IF contains(line, GUIDE_ALL)
    THEN flat_loop(L, k2 + 1, collected, AGG_AND)
    ELSE With(lookahead_subitems(L, k2 + 1), LAMBDA la :
             IF la.subitems # <<>>
             THEN flat_loop(L, la.i, Append(collected, Group(AGG_OR, la.subitems)),
                            aggregator_set)
             ELSE flat_loop(L, k2 + 1, collected, AGG_OR))

flat_loop(L, k, collected, aggregator_set) ==
    IF k >= Len(L) THEN [i |-> k, collected |-> collected, agg |-> aggregator_set]
    ELSE With(At(L, k), LAMBDA line :
             IF IsBlank(line) THEN flat_loop(L, k + 1, collected, aggregator_set)
             ELSE IF IsThen(line)
                  THEN [i |-> k, collected |-> collected, agg |-> aggregator_set]
             ELSE IF BRANCH_HEADER_RE(line)
                  THEN With(flat_subitems(L, k + 1), LAMBDA sub :
                           IF sub.subitems # <<>>
                           THEN flat_loop(L, sub.i,
                                    Append(collected,
                                           Group(PhraseAgg(line), sub.subitems)),
                                    aggregator_set)
                           ELSE flat_guide(L, sub.i, line, collected, aggregator_set))
             ELSE IF HasGuide(line)
                  THEN flat_guide(L, k, line, collected, aggregator_set)
             ELSE With(PlainItem(line), LAMBDA item :
                      flat_loop(L, k + 1,
                                IF item # <<>> THEN Append(collected, HandledItem(item))
                                ELSE collected,
                                aggregator_set)))

\* what parse_conditions returns after the flat scan
FlatResult(flat) ==
    [cond_str |-> IF flat.collected = <<>> THEN <<>>
                  ELSE join(IF flat.agg # <<>> THEN flat.agg ELSE AND_JOIN,
                            flat.collected),
     i |-> flat.i,
     nested |-> FALSE]

\* what parse_conditions returns after parse_nested
NestedResult(L, nest) ==
    [cond_str |-> nest.cond, i |-> SeekThen(L, nest.i), nested |-> TRUE]

\* parse_conditions once the first significant line, of index j, is known to
\* hold a guide phrase; k is the index of the next significant line
GuidedConditions(L, j, aggregator, k) ==
    IF k < Len(L) /\ BRANCH_HEADER_RE(At(L, k))
    THEN NestedResult(L, parse_nested(L, k, aggregator))
    ELSE FlatResult(flat_loop(L, j + 1, <<>>, aggregator))

\* parse_conditions(lines, start_idx): (cond_str, index); nested is whether
\* the nested-branch routine was used
parse_conditions(L, start_idx) ==
    With(SkipBlank(L, start_idx), LAMBDA j :
        IF j < Len(L) /\ HasGuide(At(L, j))
        THEN GuidedConditions(L, j, PhraseAgg(At(L, j)), SkipBlank(L, j + 1))
        ELSE FlatResult(flat_loop(L, start_idx, <<>>, <<>>)))

(***************************************************************************)
(* parse_results.                                                          *)
(***************************************************************************)
\* should_stop with a blank line taken as the end of the block
should_stop_at_blank(line) ==
    IsBlank(line) \/ is_heading(line).ok \/ SentinelLine(line) \/ strip(line) = KW_IF

should_stop(line) ==
    IF IsBlank(line) THEN FALSE
    ELSE IF is_heading(line).ok THEN TRUE
    ELSE IF SentinelLine(line) THEN TRUE
    ELSE strip(line) = KW_IF

\* the loop of parse_results from index k on; current is "THEN", "ELSE" or
\* "None"
RECURSIVE results_loop(_, _, _, _, _)
results_loop(L, k, current, results_then, results_else) ==
    IF k >= Len(L)
    THEN [i |-> k, results_then |-> results_then, results_else |-> results_else]
    ELSE With(At(L, k), LAMBDA line :
             IF should_stop(line)
             THEN [i |-> k, results_then |-> results_then, results_else |-> results_else]
             ELSE IF IsThen(line)
                  THEN results_loop(L, k + 1, "THEN", results_then, results_else)
             ELSE IF startswith(strip(line), KW_ELSE)
                  THEN results_loop(L, k + 1, "ELSE", results_then, results_else)
             ELSE IF IsBlank(line)
                  THEN results_loop(L, k + 1, current, results_then, results_else)
             ELSE With(normalize_explanation_suffix(PlainItem(line)), LAMBDA item :
                      IF current = "ELSE"
                      THEN results_loop(L, k + 1, current, results_then,
                                        Append(results_else, item))
                      ELSE results_loop(L, k + 1, current, Append(results_then, item),
                                        results_else)))

\* join_items of parse_results
join_items(items) == join(AND_JOIN, StripNonEmpty(items))

THEN_LABEL == <<"T", "H", "E", "N", ":", " ">>

ELSE_LABEL == <<" ", "|", "|", " ", "E", "L", "S", "E", ":", " ">>

\* the THEN section alone whenever it has items
ResultsOutThenFirst(then_str, else_str) ==
    IF then_str # <<>> THEN then_str ELSE else_str

\* parse_results(lines, start_idx): (out, i)
ResultsOut(then_str, else_str) ==
    IF then_str # <<>> /\ else_str # <<>>
    THEN THEN_LABEL \o then_str \o ELSE_LABEL \o else_str
    ELSE IF then_str # <<>> THEN then_str ELSE else_str

parse_results(L, start_idx) ==
    With(results_loop(L, start_idx, "None", <<>>, <<>>), LAMBDA r :
        [out |-> ResultsOut(join_items(r.results_then), join_items(r.results_else)),
         i |-> r.i])

(***************************************************************************)
(* extract_rows: the handling of one IF line.                              *)
(***************************************************************************)
\* max(stack.keys()) if stack else None, 0 for None
DeepestLevel(st) ==
    IF DOMAIN st = {} THEN 0
    ELSE CHOOSE k \in DOMAIN st : \A m \in DOMAIN st : m <= k

\* the loop for lev in range(deepest_level, 0, -1): the level of the first
\* heading with an id, 0 when the loop ends without one
RECURSIVE NearestLevel(_, _)
NearestLevel(st, lev) ==
    IF lev <= 0 THEN 0
    ELSE IF lev \in DOMAIN st /\ st[lev].id # <<>> THEN lev
    ELSE NearestLevel(st, lev - 1)

nearest_with_id(st) == NearestLevel(st, DeepestLevel(st))

\* f"{h['num']} {h['title']}"
NumTitle(h) == h.num \o <<" ">> \o h.title

\* test_point before normalize_text
RawTestPoint(st) ==
    With(nearest_with_id(st), LAMBDA near :
    With(DeepestLevel(st), LAMBDA deepest_level :
        IF near # 0 THEN NumTitle(st[near])
        ELSE IF deepest_level # 0 THEN NumTitle(st[deepest_level])
        ELSE <<>>))

ARROW == <<"-", ">">>

\* hil_init before normalize_text
RawHilInit(st) ==
    LET title == IF 3 \in DOMAIN st THEN st[3].title ELSE <<>>
    IN  IF contains(title, ARROW) THEN split(title, ARROW)[1] ELSE title

\* the test point put in the record as it is, number and all
TestPointFieldWhole(test_point) == test_point

\* test_point.split(" ", 1)[1] if " " in test_point else test_point
TestPointField(test_point) ==
    IF contains(test_point, <<" ">>) THEN split1(test_point, <<" ">>)[2]
    ELSE test_point

KW_FROM == <<"f", "r", "o", "m">>

KW_TO == <<"t", "o">>

EITHER == <<"E", "i", "t", "h", "e", "r", "&", "&">>

BRANCH_SEP == <<"&", "&", "O", "R", "&", "&">>

SEP_COLON == <<" ", ":", " ">>

SEP_EQ == <<" ", "=", " ">>

\* the from ... to rewrite of results_str and hil_init; raises is whether
\* one of the [1] subscripts is out of range (IndexError)
FromToRewrite(hil_init, results_str, results_str_head, tos) ==
    IF Len(tos) < 2
    THEN [raises |-> TRUE, results_str |-> results_str, hil_init |-> hil_init]
    ELSE [raises |-> FALSE,
          results_str |-> results_str_head \o SEP_EQ \o strip(tos[2]),
          hil_init |-> hil_init \o SEP_COLON \o results_str_head
                       \o SEP_EQ \o strip(tos[1])]

FromTo(hil_init, results_str) ==
    IF ~contains(results_str, KW_FROM)
    THEN [raises |-> FALSE, results_str |-> results_str,
          hil_init |-> hil_init \o SEP_COLON \o results_str]
    ELSE With(split(results_str, KW_FROM), LAMBDA pieces :
             FromToRewrite(hil_init, results_str, strip(pieces[1]),
                           split(pieces[2], KW_TO)))

\* cond_strs: the branches after the "Either&&" marker, <<>> without it
CondStrs(cond_str) ==
    IF contains(cond_str, EITHER)
    THEN split(split(cond_str, EITHER)[2], BRANCH_SEP)
    ELSE <<>>

\* the rows appended for one initial-condition text
RECURSIVE RowsPerCond(_, _, _, _, _)
RowsPerCond(req_id, test_point, init, conds, results_str) ==
    IF conds = <<>> THEN <<>>
    ELSE << <<req_id, TestPointField(test_point), init, Head(conds), results_str>> >>
         \o RowsPerCond(req_id, test_point, init, Tail(conds), results_str)

\* the loop over hil_init_values without its inner loop over cond_strs: one
\* row for each value, with the first of the steps
RECURSIVE RowsPerValueFirstCond(_, _, _, _, _, _)
RowsPerValueFirstCond(req_id, test_point, head, values, conds, results_str) ==
    IF values = <<>> THEN <<>>
    ELSE RowsPerCond(req_id, test_point, head \o SEP_EQ \o Head(values),
                     <<Head(conds)>>, results_str)
         \o RowsPerValueFirstCond(req_id, test_point, head, Tail(values), conds,
                                  results_str)

\* the rows of the loop over hil_init_values
RECURSIVE RowsPerValue(_, _, _, _, _, _)
RowsPerValue(req_id, test_point, head, values, conds, results_str) ==
    IF values = <<>> THEN <<>>
    ELSE RowsPerCond(req_id, test_point, head \o SEP_EQ \o Head(values), conds,
                     results_str)
         \o RowsPerValue(req_id, test_point, head, Tail(values), conds, results_str)

\* the steps of the rows of a block: cond_strs when it is not empty,
\* cond_str alone otherwise
Conds(cond_str) ==
    With(CondStrs(cond_str), LAMBDA cond_strs :
        IF cond_strs # <<>> THEN cond_strs ELSE <<cond_str>>)

\* the rows extract_rows appends for a block
BlockRows(req_id, test_point, hil_init, cond_str, results_str) ==
    With(Conds(cond_str), LAMBDA conds :
    With(split(hil_init, <<"=">>), LAMBDA eq :
        IF Len(eq) >= 2 /\ contains(strip(eq[2]), <<"/">>)
        THEN RowsPerValue(req_id, test_point, strip(eq[1]),
                          split(strip(eq[2]), <<"/">>), conds, results_str)
        ELSE RowsPerCond(req_id, test_point, hil_init, conds, results_str)))

\* the fields and the rows of a block once both parsers have returned
BlockFields(k, st, c, r, hil_init, cond_str, results_str, ft) ==
    [at |-> k,
     stack |-> st,
     idx_at_then |-> c.i,
     next_idx |-> r.i,
     nested |-> c.nested,
     cond_str |-> cond_str,
     results_str |-> results_str,
     hil_title |-> hil_init,
     raises |-> ft.raises,
     hil_init |-> ft.hil_init,
     results_out |-> ft.results_str,
     new_rows |-> IF ft.raises THEN <<>>
                  ELSE BlockRows(strip(IF nearest_with_id(st) # 0
                                       THEN st[nearest_with_id(st)].id ELSE <<>>),
                                 normalize_text(RawTestPoint(st)),
                                 ft.hil_init, cond_str, ft.results_str)]

BlockAfterParse(k, st, c, r) ==
    With(normalize_text(RawHilInit(st)), LAMBDA hil_init :
    With(normalize_text(r.out), LAMBDA results_str :
        BlockFields(k, st, c, r, hil_init, normalize_text(c.cond_str), results_str,
                    FromTo(hil_init, results_str))))

\* everything extract_rows computes at the IF line of index k with the
\* stack st
if_block(L, k, st) ==
    With(parse_conditions(L, k + 1), LAMBDA c :
        BlockAfterParse(k, st, c, parse_results(L, c.i)))

NoBlock ==
    [at |-> -1, stack |-> <<>>, idx_at_then |-> -1, next_idx |-> -1, nested |-> FALSE,
     cond_str |-> <<>>, results_str |-> <<>>, hil_title |-> <<>>,
     raises |-> FALSE, hil_init |-> <<>>, results_out |-> <<>>, new_rows |-> <<>>]

(***************************************************************************)
(* extract_rows: the main loop.  status is "running" in the loop,          *)
(* "returned" after the return of rows and "raised" when an exception left *)
(* the function; blk holds what the last IF line computed.  hlog is a      *)
(* history variable: the indices of the lines the loop took as headings.   *)
(* These are the local variables of one invocation; peer holds the local   *)
(* variables of another invocation that is not running now, NoPeer when    *)
(* there is none.                                                          *)
(***************************************************************************)
NoPeer == <<>>

Line(k) == At(lines, k)

\* a heading stored without the deeper levels being popped
PushHeadingKeepDeeper(st, h) ==
    [k \in DOMAIN st \cup {heading_level(h.num)} |->
        IF k = heading_level(h.num) THEN HeadingOf(h) ELSE st[k]]

\* a heading stored after the levels <= its level are popped: the
\* comparison of the pruning loop turned round
PushHeadingPopShallower(st, h) ==
    [k \in {m \in DOMAIN st : ~(m <= heading_level(h.num))}
            \cup {heading_level(h.num)} |->
        IF k = heading_level(h.num) THEN HeadingOf(h) ELSE st[k]]

\* the stack after a heading h: the levels >= its level popped, h stored
PushHeading(st, h) ==
    With(heading_level(h.num), LAMBDA level :
        [k \in {m \in DOMAIN st : ~(m >= level)} \cup {level} |->
            IF k = level THEN HeadingOf(h) ELSE st[k]])

ScanHeading ==
    /\ status = "running"
    /\ i < Len(lines)
    /\ is_heading(Line(i)).ok
    /\ stack' = PushHeading(stack, is_heading(Line(i)))
    /\ i' = i + 1
    /\ hlog' = Append(hlog, i)
    /\ UNCHANGED <<lines, rows, status, blk, peer>>

\* the state after the block b of an IF line
AfterBlock(b) ==
    /\ blk' = b
    /\ rows' = rows \o b.new_rows
    /\ status' = IF b.raises THEN "raised" ELSE "running"
    /\ i' = IF b.raises THEN i ELSE b.next_idx

ScanIf ==
    /\ status = "running"
    /\ i < Len(lines)
    /\ ~is_heading(Line(i)).ok
    /\ strip(Line(i)) = KW_IF
    /\ AfterBlock(if_block(lines, i, stack))
    /\ UNCHANGED <<lines, stack, hlog, peer>>

\* the cursor left where it is
AfterOtherStay(k) == k

\* i += 1 at the end of an iteration over an ordinary line
AfterOther(k) == k + 1

ScanOther ==
    /\ status = "running"
    /\ i < Len(lines)
    /\ ~is_heading(Line(i)).ok
    /\ strip(Line(i)) # KW_IF
    /\ i' = AfterOther(i)
    /\ UNCHANGED <<lines, stack, rows, status, blk, hlog, peer>>

Return ==
    /\ status = "running"
    /\ i >= Len(lines)
    /\ status' = "returned"
    /\ UNCHANGED <<lines, i, stack, rows, blk, hlog, peer>>

Next == ScanHeading \/ ScanIf \/ ScanOther \/ Return

(***************************************************************************)
(* Documents.  A specification starts from every document of at most a     *)
(* bounded number of lines over a vocabulary of lines.                     *)
(***************************************************************************)
Docs(V, n) == UNION {[1..m -> V] : m \in 0..n}

StartOn(D) ==
    /\ lines \in D
    /\ i = 0
    /\ stack = <<>>
    /\ rows = <<>>
    /\ status = "running"
    /\ blk = NoBlock
    /\ hlog = <<>>
    /\ peer = NoPeer

\* "IF"
L_IF == <<"I", "F">>

\* "THEN"
L_THEN == <<"T", "H", "E", "N">>

\* "1.1 A[R1]", the brackets being U+3010 and U+3011
H2_ID == <<"1", ".", "1", " ", "A", "u3010", "R", "1", "u3011">>

\* "1.2 B"
H2_PLAIN == <<"1", ".", "2", " ", "B">>

\* "1.1.1 C[R3]", the brackets being U+3010 and U+3011
H3_ID == <<"1", ".", "1", ".", "1", " ", "C", "u3010", "R", "3", "u3011">>

\* "1.2.1 D"
H3_PLAIN == <<"1", ".", "2", ".", "1", " ", "D">>

\* "1.1.1.1 E[ R4 ]", the brackets being U+3010 and U+3011
H4_ID == <<"1", ".", "1", ".", "1", ".", "1", " ", "E", "u3010", " ", "R", "4", " ", "u3011">>

MaxHeadLines == 4

\* headings of two, three and four components, with and without an id
HeadVocabulary == {H2_ID, H2_PLAIN, H3_ID, H3_PLAIN, H4_ID, L_IF, L_THEN}

InitHead == StartOn(Docs(HeadVocabulary, MaxHeadLines))

SpecHead == InitHead /\ [][Next]_vars

\* the number of components of a dotted number: its dots and one
Components(num) == Cardinality({p \in 1..Len(num) : num[p] = "."}) + 1

\* the main loop is at a line that matches the heading pattern
AtHeading == status = "running" /\ i < Len(lines) /\ is_heading(Line(i)).ok

(***************************************************************************)
(* C2.  Whenever the main loop of extract_rows handles a line that matches *)
(* the heading pattern and whose dotted number has L components, then      *)
(* right after the step the stack holds the new heading at level L, holds  *)
(* no level greater than L, and holds below L exactly the entries it held  *)
(* before the line, unchanged.                                             *)
(***************************************************************************)
C2_HeadingUpdate ==
    [][AtHeading =>
        LET h == is_heading(Line(i))
            L == Components(h.num)
        IN  /\ L \in DOMAIN stack'
            /\ stack'[L] = [num |-> h.num, title |-> h.title, id |-> h.id]
            /\ \A k \in DOMAIN stack' : k <= L
            /\ \A k \in 1..(L - 1) :
                  /\ k \in DOMAIN stack' <=> k \in DOMAIN stack
                  /\ k \in DOMAIN stack => stack'[k] = stack[k]]_vars

\* the headings 1.1, 1.1.1.1 and 1.2.1 have been handled in this order: the
\* last one popped level 4 and left level 2 as it was
C2_Witness ==
    /\ hlog = <<0, 1, 2>>
    /\ i = 3
    /\ Line(0) = H2_ID /\ Line(1) = H4_ID /\ Line(2) = H3_PLAIN
    /\ DOMAIN stack = {2, 3}
    /\ stack[2] = HeadingOf(is_heading(H2_ID))
    /\ stack[3] = HeadingOf(is_heading(H3_PLAIN))

(***************************************************************************)
(* C3.  In every reachable state in which the main loop has taken at       *)
(* least one line as a heading, the stack (a mapping of levels to          *)
(* headings, so one heading for a level at most) holds the most recently   *)
(* taken heading at its level and nothing deeper, whatever heading and     *)
(* other lines came before, levels skipped or not.                         *)
(***************************************************************************)
C3_DeepestIsLatest ==
    hlog # <<>> =>
        LET h == is_heading(Line(hlog[Len(hlog)]))
            L == Components(h.num)
        IN  /\ DOMAIN stack \subseteq 1..L
            /\ L \in DOMAIN stack
            /\ stack[L] = [num |-> h.num, title |-> h.title, id |-> h.id]

\* three headings handled, the stack holding levels 2 and 4 with level 3
\* skipped: a level-3 heading was popped by a level-2 one before
C3_Witness ==
    /\ Len(hlog) = 3
    /\ Components(is_heading(Line(hlog[1])).num) = 3
    /\ DOMAIN stack = {2, 4}

(***************************************************************************)
(* Documents of result sections: every document of at most MaxResultLines  *)
(* lines over the lines that matter to parse_results.                      *)
(***************************************************************************)
\* "r"
L_R == <<"r">>

\* a blank line
L_BLANK == <<" ">>

\* "ELSE"
L_ELSE == <<"E", "L", "S", "E">>

\* "C" followed by U+5E73 U+53F0, a platform sentinel
L_PLATFORM == <<"C">> \o PLATFORM

MaxResultLines == 4

ResultVocabulary == {L_IF, L_THEN, L_ELSE, L_R, L_BLANK, H2_PLAIN, L_PLATFORM}

InitResults == StartOn(Docs(ResultVocabulary, MaxResultLines))

SpecResults == InitResults /\ [][Next]_vars

\* a line that ends a result block
Terminator(line) ==
    is_heading(line).ok \/ SentinelLine(line) \/ strip(line) = KW_IF

\* the main loop is at an IF line
AtIf ==
    /\ status = "running"
    /\ i < Len(lines)
    /\ ~is_heading(Line(i)).ok
    /\ strip(Line(i)) = KW_IF

MaxAlternatives == 3

MaxBranches == 2

\* "x"
L_X == <<"x">>

\* the k-th digit, written
Digit(k) == <<"0", "1", "2", "3", "4", "5", "6", "7", "8", "9">>[k + 1]

\* "1/2/.../k"
RECURSIVE SlashList(_)
SlashList(k) == IF k = 1 THEN <<Digit(1)>> ELSE SlashList(k - 1) \o <<"/", Digit(k)>>

\* "1.1.1 s = 1/2/.../k[R5]", the brackets being U+3010 and U+3011
SlashHeading(k) ==
    <<"1", ".", "1", ".", "1", " ", "s", " ", "=", " ">> \o SlashList(k)
    \o <<"u3010", "R", "5", "u3011">>

\* the name of the n-th branch: "P", "Q", ...
BranchName(n) == <<<<"P", "Q", "S", "T", "U", "V", "W", "Y", "Z">>[n]>>

\* "Either" and "OR", lines that stand between the branches of a flat block
L_EITHER == <<"E", "i", "t", "h", "e", "r">>

L_OR == <<"O", "R">>

\* the lines "P", "OR", "Q", ... of b branches
RECURSIVE EitherBranches(_)
EitherBranches(b) ==
    IF b = 1 THEN <<BranchName(1)>>
    ELSE EitherBranches(b - 1) \o <<L_OR, BranchName(b)>>

\* a flat section under the AND guide whose lines are Either, P, OR, Q, ...
EitherSection(b) == <<GUIDE_ALL, L_EITHER>> \o EitherBranches(b)

\* the branch header "n. " followed by the AND guide phrase
BranchHeader(n) == <<Digit(n), ".", " ">> \o GUIDE_ALL

\* the sub-item of the n-th branch: two spaces and its name in lower case
SubItem(n) == <<" ", " ", <<"p", "q", "s", "t", "u", "v", "w", "y", "z">>[n]>>

\* n branches, each a header and one sub-item
RECURSIVE NestedBranches(_)
NestedBranches(n) ==
    IF n = 0 THEN <<>>
    ELSE NestedBranches(n - 1) \o <<BranchHeader(n), SubItem(n)>>

\* a nested section under the OR guide with n branches
NestedSection(n) == <<GUIDE_ANY>> \o NestedBranches(n)

\* "M from A to B", "M from Auto to Stop" and "M from A"
R_FROM_TO == <<"M", " ", "f", "r", "o", "m", " ", "A", " ", "t", "o", " ", "B">>

R_AUTO_STOP ==
    <<"M", " ", "f", "r", "o", "m", " ", "A", "u", "t", "o", " ", "t", "o", " ",
      "S", "t", "o", "p">>

R_FROM == <<"M", " ", "f", "r", "o", "m", " ", "A">>

\* "1.1.1 m = s = 1/2[R5]", a title with two "="
H3_TWO_EQ ==
    <<"1", ".", "1", ".", "1", " ", "m", " ", "=", " ", "s", " ", "=", " ",
      "1", "/", "2", "u3010", "R", "5", "u3011">>

\* "1.1 [R1]", the brackets being U+3010 and U+3011: a heading with an id
\* and an empty title
H2_NO_TITLE == <<"1", ".", "1", " ", "u3010", "R", "1", "u3011">>

Prefixes ==
    {<<>>, <<H2_ID>>, <<H3_ID>>, <<L_X, H3_PLAIN>>, <<H2_ID, H3_PLAIN>>, <<H3_TWO_EQ>>,
     <<H2_NO_TITLE>>}
    \cup {<<SlashHeading(k)>> : k \in 2..MaxAlternatives}

CondSections ==
    {<<>>, <<L_X>>, <<L_X, BranchHeader(1)>>, <<L_X, BranchHeader(1), L_X>>,
     <<L_X, H2_PLAIN>>,
     <<GUIDE_ANY, BranchHeader(1), SubItem(1), L_PLATFORM>>,
     <<GUIDE_ANY, BranchHeader(1), SubItem(1), L_X, BranchHeader(2), SubItem(2)>>}
    \cup {EitherSection(b) : b \in 2..MaxBranches}
    \cup {NestedSection(n) : n \in 2..MaxBranches}

ThenSections == {<<>>, <<L_THEN>>}

ResultSections ==
    {<<>>, <<L_R>>, <<L_R, L_BLANK, L_R>>, <<R_FROM_TO>>, <<R_AUTO_STOP>>, <<R_FROM>>}

Suffixes == {<<>>, <<H2_PLAIN, L_X>>, <<L_IF, L_X>>}

BlockDocs ==
    {pre \o <<L_IF>> \o c \o t \o r \o suf :
        pre \in Prefixes, c \in CondSections, t \in ThenSections,
        r \in ResultSections, suf \in Suffixes}

Init == StartOn(BlockDocs)

Spec == Init /\ [][Next]_vars

(***************************************************************************)
(* C1.  For every input text extract_rows returns normally: no exception   *)
(* leaves it.                                                              *)
(***************************************************************************)
C1_ReturnsNormally == status # "raised"

\* the levels of st whose heading carries an id
WithId(st) == {k \in DOMAIN st : st[k].id # <<>>}

\* the deepest of a non-empty set of levels
Deepest(S) == CHOOSE k \in S : \A m \in S : m <= k

(***************************************************************************)
(* C4.  For the block of every IF line a record is emitted, also when no   *)
(* heading of the stack carries an id; in every record of the block the    *)
(* requirement id is the id of the first heading with an id found from the *)
(* deepest level of the stack (as it stands at the IF line) down to level  *)
(* 1, the empty string when there is none, and the test point is built     *)
(* from that same heading.                                                 *)
(***************************************************************************)
C4_IdFromNearest ==
    blk.at >= 0 =>
        /\ blk.new_rows # <<>>
        /\ \A n \in 1..Len(blk.new_rows) :
              IF WithId(blk.stack) = {}
              THEN blk.new_rows[n][1] = <<>>
              ELSE LET head == blk.stack[Deepest(WithId(blk.stack))]
                   IN  /\ blk.new_rows[n][1] = strip(head.id)
                       /\ blk.new_rows[n][2] =
                             TestPointField(normalize_text(NumTitle(head)))

\* the indices after the IF line of index k of the lines beginning with THEN
ThenLines(k) == {m \in (k + 1)..(Len(lines) - 1) : IsThen(Line(m))}

\* the least of a non-empty set of indices
Least(S) == CHOOSE k \in S : \A m \in S : k <= m

(***************************************************************************)
(* C5.  For every IF block in which a line beginning with THEN comes after *)
(* the IF line with no heading line and no IF line in between,             *)
(* parse_conditions returns the index of the first such THEN line.         *)
(***************************************************************************)
C5_StopsAtFirstThen ==
    (/\ blk.at >= 0
     /\ ThenLines(blk.at) # {}
     /\ \A m \in (blk.at + 1)..(Least(ThenLines(blk.at)) - 1) :
           ~is_heading(Line(m)).ok /\ strip(Line(m)) # KW_IF)
    => blk.idx_at_then = Least(ThenLines(blk.at))

(***************************************************************************)
(* C6.  No line that matches the heading pattern or begins with a platform *)
(* or FSM_index sentinel is consumed by parse_conditions, in the flat scan *)
(* or in the nested routine: the condition block ends before it.           *)
(***************************************************************************)
C6_TerminatorsEndConditions ==
    blk.at >= 0 =>
        \A m \in (blk.at + 1)..(blk.idx_at_then - 1) :
            ~is_heading(Line(m)).ok /\ ~SentinelLine(Line(m))

\* the index of the guide line of the block of the IF line of index k
GuideIndex(k) == SkipBlank(lines, k + 1)

\* the non-empty branches the nested routine finds in that block
BranchesOf(k) ==
    NonEmpty(nested_loop(lines, SkipBlank(lines, GuideIndex(k) + 1), <<>>).branches)

(***************************************************************************)
(* C8.  For a block handled by the nested routine under the OR guide       *)
(* phrase, with n >= 2 non-empty branches and no slash alternatives,       *)
(* extract_rows emits n records, the steps of the j-th being the           *)
(* expression of the j-th branch.                                          *)
(***************************************************************************)
C8_RecordPerBranch ==
    (/\ blk.at >= 0
     /\ blk.nested
     /\ ~blk.raises
     /\ ~contains(Line(GuideIndex(blk.at)), GUIDE_ALL)
     /\ Len(BranchesOf(blk.at)) >= 2
     /\ ~contains(blk.hil_init, <<"/">>))
    => /\ Len(blk.new_rows) = Len(BranchesOf(blk.at))
       /\ \A j \in 1..Len(blk.new_rows) :
             blk.new_rows[j][4] = normalize_text(BranchesOf(blk.at)[j])

\* the text of the initial condition before its first '='
InitialHead(init) == strip(split(init, <<"=">>)[1])

\* the alternatives of the value of the initial condition
Alternatives(init) == split(strip(split(init, <<"=">>)[2]), <<"/">>)

\* the branches of a condition: the texts between the markers, the
\* condition itself without them
Branches(cond) ==
    IF contains(cond, EITHER)
    THEN split(split(cond, EITHER)[2], BRANCH_SEP)
    ELSE <<cond>>

FromToTexts ==
    {<<"M">>, <<"A">>, <<"B">>, <<"A", "u", "t", "o">>, <<"S", "t", "o", "p">>}

(***************************************************************************)
(* C10.  For a block whose normalised result expression is 'H from A to    *)
(* B', with H, A and B non-empty texts that hold neither 'from' nor 'to'   *)
(* as a word ('Auto' and 'Stop' among them), the expected result is        *)
(* 'H = B' and the initial condition '<initial> : H = A', <initial> being  *)
(* the text of the level-3 heading; for a result expression without        *)
(* 'from' the initial condition is '<initial> : <result expression>' and   *)
(* the expected result the result expression unchanged.                    *)
(***************************************************************************)
C10_FromToRewrite ==
    blk.at >= 0 =>
        /\ \A H \in FromToTexts : \A A \in FromToTexts : \A B \in FromToTexts :
              blk.results_str = H \o <<" ">> \o KW_FROM \o <<" ">> \o A
                                \o <<" ">> \o KW_TO \o <<" ">> \o B
              => /\ ~blk.raises
                 /\ blk.results_out = H \o <<" ", "=", " ">> \o B
                 /\ blk.hil_init = blk.hil_title \o <<" ", ":", " ">> \o H
                                   \o <<" ", "=", " ">> \o A
        /\ ~contains(blk.results_str, KW_FROM)
              => /\ ~blk.raises
                 /\ blk.results_out = blk.results_str
                 /\ blk.hil_init = blk.hil_title \o <<" ", ":", " ">> \o blk.results_str

(***************************************************************************)
(* Condition blocks: flat blocks of free lines, nested blocks of branches  *)
(* with their sub-items, and the lane-keeping requirement.                 *)
(***************************************************************************)
MaxCondLines == 4

MaxItems == 2

L_A == <<"a">>

L_B == <<"b">>

L_C == <<"c">>

\* "  p", an indented sub-item
L_SUB_P == <<" ", " ", "p">>

\* "a or b"
L_A_OR_B == <<"a", " ", "o", "r", " ", "b">>

FlatVocabulary == {GUIDE_ALL, GUIDE_ANY, L_A, L_B, L_C, L_SUB_P, L_A_OR_B}

\* IF, at most MaxCondLines lines of conditions, THEN, r
FlatDocs ==
    {<<L_IF>> \o c \o <<L_THEN, L_R>> : c \in Docs(FlatVocabulary, MaxCondLines)}

\* the guide phrase of an aggregator
GuideOf(agg) == IF agg = AGG_AND THEN GUIDE_ALL ELSE GUIDE_ANY

\* the name of the m-th item of the j-th branch: "A", "B" in the first
\* branch, "C", "D" in the second
ItemName(j, m) ==
    <<<<<<"A", "B", "E", "F">>, <<"C", "D", "G", "H">>,
        <<"I", "J", "K", "L">>, <<"M", "N", "P", "Q">>>>[j][m]>>

\* the lines of the j-th branch with aggregator agg and m items: the header
\* "j. <guide phrase>" and the items, indented by two blanks
RECURSIVE BranchItems(_, _)
BranchItems(j, m) ==
    IF m = 0 THEN <<>> ELSE BranchItems(j, m - 1) \o <<<<" ", " ">> \o ItemName(j, m)>>

BranchLines(j, agg, m) == <<<<Digit(j), ".", " ">> \o GuideOf(agg)>> \o BranchItems(j, m)

\* what a nested block is made of: the aggregator and the number of items
\* of each of its branches
BranchShapes == [agg : {AGG_AND, AGG_OR}, m : 1..MaxItems]

RECURSIVE ShapeLines(_, _)
ShapeLines(shapes, j) ==
    IF j > Len(shapes) THEN <<>>
    ELSE BranchLines(j, shapes[j].agg, shapes[j].m) \o ShapeLines(shapes, j + 1)

\* IF, the outer guide phrase, the branches, THEN, r
NestedDoc(outer, shapes) ==
    <<L_IF, GuideOf(outer)>> \o ShapeLines(shapes, 1) \o <<L_THEN, L_R>>

NestedDocs ==
    {NestedDoc(outer, shapes) :
        outer \in {AGG_AND, AGG_OR},
        shapes \in UNION {[1..n -> BranchShapes] : n \in 2..MaxBranches}}

\* "3.2.1 Lane Keep[REQ-7]", the brackets being U+3010 and U+3011
H_LANE_KEEP ==
    <<"3", ".", "2", ".", "1", " ", "L", "a", "n", "e", " ", "K", "e", "e", "p",
      "u3010", "R", "E", "Q", "-", "7", "u3011">>

\* "  1. " and the AND guide phrase
L_NUMBERED_ALL == <<" ", " ", "1", ".", " ">> \o GUIDE_ALL

\* "    {v}==1"
L_V == <<" ", " ", " ", " ", "{", "v", "}", "=", "=", "1">>

\* "    {w}>5 (HighSpeed)"
L_W ==
    <<" ", " ", " ", " ", "{", "w", "}", ">", "5", " ",
      "(", "H", "i", "g", "h", "S", "p", "e", "e", "d", ")">>

\* "{out}=1"
L_OUT == <<"{", "o", "u", "t", "}", "=", "1">>

\* the lane-keeping requirement
LaneKeepDoc == <<H_LANE_KEEP, L_IF, L_NUMBERED_ALL, L_V, L_W, L_THEN, L_OUT>>

\* the requirement, and what it becomes with a line before the heading,
\* with its items in the other order and with one item only
LaneKeepDocs ==
    {pre \o <<H_LANE_KEEP, L_IF, L_NUMBERED_ALL>> \o items \o <<L_THEN, L_OUT>> :
        pre \in {<<>>, <<L_X>>},
        items \in {<<L_V, L_W>>, <<L_W, L_V>>, <<L_V>>, <<L_W>>}}

InitCond == StartOn(FlatDocs \cup NestedDocs \cup LaneKeepDocs)

SpecCond == InitCond /\ [][Next]_vars

\* "REQ-7"
REQ_7 == <<"R", "E", "Q", "-", "7">>

\* "({v} == 1 && {w} > 5: HighSpeed)"
LANE_KEEP_STEPS ==
    <<"(", "{", "v", "}", " ", "=", "=", " ", "1", " ", "&", "&", " ",
      "{", "w", "}", " ", ">", " ", "5", ":", " ",
      "H", "i", "g", "h", "S", "p", "e", "e", "d", ")">>

\* "{out} = 1"
LANE_KEEP_RESULT == <<"{", "o", "u", "t", "}", " ", "=", " ", "1">>

(***************************************************************************)
(* C11.  From the lane-keeping requirement (the heading '3.2.1 Lane        *)
(* Keep[REQ-7]', IF, '  1. ' with the AND guide phrase, the indented items *)
(* '{v}==1' and '{w}>5 (HighSpeed)', THEN, '{out}=1') extract_rows returns *)
(* exactly one record; its requirement id is 'REQ-7', its steps are        *)
(* '({v} == 1 && {w} > 5: HighSpeed)' and its expected result is           *)
(* '{out} = 1'.                                                            *)
(***************************************************************************)
C11_LaneKeepRecord ==
    (lines = LaneKeepDoc /\ status = "returned")
    => /\ Len(rows) = 1
       /\ rows[1][1] = REQ_7
       /\ rows[1][4] = LANE_KEEP_STEPS
       /\ rows[1][5] = LANE_KEEP_RESULT

\* the items of the j-th branch, the first m of them
ItemNames(j, m) == [k \in 1..m |-> ItemName(j, k)]

\* the expression of a group: its members between blanks and the
\* aggregator, in one pair of parentheses
Grouped(agg, members) ==
    <<"(">> \o join(<<" ">> \o agg \o <<" ">>, members) \o <<")">>

\* the expression of a nested block: the group of every branch, in the
\* order of the branches, between blanks and the outer aggregator
NestedExpression(outer, shapes) ==
    join(<<" ">> \o outer \o <<" ">>,
         [j \in 1..Len(shapes) |-> Grouped(shapes[j].agg, ItemNames(j, shapes[j].m))])

(***************************************************************************)
(* C12.  For a nested block, the outer guide phrase directly followed by   *)
(* branch headers, every branch with its own guide phrase and its indented *)
(* items, parse_conditions produces the groups of the branches in document *)
(* order, joined by the outer aggregator; the group of a branch is its     *)
(* items in document order, joined by the aggregator of the branch, in     *)
(* parentheses.  Outer AND with the branches AND of A, B and OR of C, D    *)
(* gives '(A && B) && (C || D)'.                                           *)
(***************************************************************************)
C12_NestedExpression ==
    (blk.at = 0 /\ blk.nested)
    => \A outer \in {AGG_AND, AGG_OR} :
       \A n \in 2..MaxBranches : \A shapes \in [1..n -> BranchShapes] :
           lines = NestedDoc(outer, shapes)
           => /\ parse_conditions(lines, 1).cond_str = NestedExpression(outer, shapes)
              /\ blk.cond_str = NestedExpression(outer, shapes)

\* the block of the claim's example has been parsed as a nested one
C12_Witness ==
    /\ lines = NestedDoc(AGG_AND, <<[agg |-> AGG_AND, m |-> 2], [agg |-> AGG_OR, m |-> 2]>>)
    /\ blk.at = 0
    /\ blk.nested
    /\ blk.cond_str =
          <<"(", "A", " ", "&", "&", " ", "B", ")", " ", "&", "&", " ",
            "(", "C", " ", "|", "|", " ", "D", ")">>
    /\ status = "returned"

\* the plain condition items
PlainItems == {L_A, L_B, L_C}

(***************************************************************************)
(* C13.  For a flat block that is the OR guide phrase followed by three    *)
(* plain condition items and THEN, parse_conditions produces the three     *)
(* items in document order, joined by ' || ', in one pair of parentheses:  *)
(* '(item1 || item2 || item3)'.                                            *)
(***************************************************************************)
C13_FlatOrExpression ==
    blk.at = 0
    => \A items \in [1..3 -> PlainItems] :
           lines = <<L_IF, GUIDE_ANY>> \o items \o <<L_THEN, L_R>>
           => /\ parse_conditions(lines, 1).cond_str = Grouped(AGG_OR, items)
              /\ blk.cond_str = Grouped(AGG_OR, items)

(***************************************************************************)
(* Result sections: a block whose lines after IF are keyword lines and     *)
(* the items p, q and r.                                                   *)
(***************************************************************************)
MaxSectionLines == 4

L_P == <<"p">>

L_Q == <<"q">>

SectionVocabulary == {L_THEN, L_ELSE, L_P, L_Q, L_R}

\* IF, at most one condition, THEN, at most MaxSectionLines lines of
\* results, and at most a heading and one more line
SectionDocs ==
    {<<L_IF>> \o c \o <<L_THEN>> \o body \o suf :
        c \in {<<>>, <<L_X>>},
        body \in Docs(SectionVocabulary, MaxSectionLines),
        suf \in {<<>>, <<H2_PLAIN, L_X>>}}

InitSections == StartOn(SectionDocs)

SpecSections == InitSections /\ [][Next]_vars

Greatest(S) == CHOOSE x \in S : \A y \in S : y <= x

\* the line of index k is a keyword line
IsKeyword(k) == startswith(strip(Line(k)), KW_THEN) \/ startswith(strip(Line(k)), KW_ELSE)

\* the section the line of index k belongs to in a result block that
\* starts at index lo: that of the last keyword line before it, THEN when
\* there is none
SectionOf(lo, k) ==
    LET kws == {j \in lo..(k - 1) : IsKeyword(j)}
    IN  IF kws = {} THEN "THEN"
        ELSE IF startswith(strip(Line(Greatest(kws))), KW_THEN) THEN "THEN" ELSE "ELSE"

\* the content lines of the section sec among the lines lo..hi, from the
\* index k on, in document order
RECURSIVE SectionItems(_, _, _, _)
SectionItems(lo, hi, k, sec) ==
    IF k > hi THEN <<>>
    ELSE (IF ~IsKeyword(k) /\ ~IsBlank(Line(k)) /\ SectionOf(lo, k) = sec
          THEN <<strip(Line(k))>> ELSE <<>>)
         \o SectionItems(lo, hi, k + 1, sec)

(***************************************************************************)
(* C14.  parse_results gives every content line to the section, THEN or    *)
(* ELSE, of the last keyword line before it (THEN when there is none yet)  *)
(* and keeps the document order within a section.  With items in both      *)
(* sections the result is 'THEN: ' and the THEN items joined by ' && ',    *)
(* then ' || ELSE: ' and the ELSE items joined by ' && ' (p, q and r give  *)
(* 'THEN: p && q || ELSE: r'); with items in one section only it is the    *)
(* items of that section joined by ' && ', without a label.                *)
(***************************************************************************)
C14_ThenElseSections ==
    blk.at >= 0
    => LET lo == blk.idx_at_then
           hi == blk.next_idx - 1
           thens == SectionItems(lo, hi, lo, "THEN")
           elses == SectionItems(lo, hi, lo, "ELSE")
           out == parse_results(lines, lo).out
       IN  /\ (thens # <<>> /\ elses # <<>>)
              => out = <<"T", "H", "E", "N", ":", " ">> \o join(AND_JOIN, thens)
                       \o <<" ", "|", "|", " ", "E", "L", "S", "E", ":", " ">>
                       \o join(AND_JOIN, elses)
           /\ (thens # <<>> /\ elses = <<>>) => out = join(AND_JOIN, thens)
           /\ (thens = <<>> /\ elses # <<>>) => out = join(AND_JOIN, elses)
           /\ (thens = <<>> /\ elses = <<>>) => out = <<>>
           /\ blk.results_str = out

\* the block IF, THEN, p, q, ELSE, r has been parsed and its record emitted
C14_Witness ==
    /\ lines = <<L_IF, L_THEN, L_P, L_Q, L_ELSE, L_R>>
    /\ blk.at = 0
    /\ blk.idx_at_then = 1
    /\ blk.results_str =
          <<"T", "H", "E", "N", ":", " ", "p", " ", "&", "&", " ", "q",
            " ", "|", "|", " ", "E", "L", "S", "E", ":", " ", "r">>
    /\ rows # <<>>

\* n sub-items "  p", and what they are as items
SubItems(n) == [k \in 1..n |-> L_SUB_P]

SubItemTexts(n) == [k \in 1..n |-> strip(L_SUB_P)]

(***************************************************************************)
(* C15.  In a flat block of plain items in which the bare OR guide phrase  *)
(* is directly followed by one or more indented sub-items, the sub-items   *)
(* form one unit, joined by ' || ' in parentheses, and the top-level items *)
(* before and after it are joined with it by ' && ', the aggregator no     *)
(* guide phrase has changed; also when the guide line is the first line    *)
(* after IF.                                                               *)
(***************************************************************************)
C15_OrGroupKeepsAggregator ==
    blk.at = 0
    => \A before \in Docs(PlainItems, 2) : \A after \in Docs(PlainItems, 2) :
       \A n \in 1..2 :
           lines = <<L_IF>> \o before \o <<GUIDE_ANY>> \o SubItems(n) \o after
                   \o <<L_THEN, L_R>>
           => parse_conditions(lines, 1).cond_str =
                 join(AND_JOIN,
                      before \o <<Grouped(AGG_OR, SubItemTexts(n))>> \o after)

\* a text without its blanks
Squeeze(text) == replace(text, " ", <<>>)

(***************************************************************************)
(* C16.  In a flat block of plain items with one guide-phrase line, the    *)
(* items before the guide line are joined by '&&', no guide phrase         *)
(* preceding them, and the items after it by the aggregator of the guide   *)
(* phrase, '&&' or '||': the guide line does not change how the items      *)
(* before it are joined.  Without a guide line all items are joined by     *)
(* '&&'.  (Blanks around the aggregators are left out of the comparison.)  *)
(***************************************************************************)
C16_NearestGuideDecides ==
    blk.at = 0
    => /\ \A before \in Docs(PlainItems, 2) : \A after \in Docs(PlainItems, 2) :
          \A agg \in {AGG_AND, AGG_OR} :
              lines = <<L_IF>> \o before \o <<GuideOf(agg)>> \o after \o <<L_THEN, L_R>>
              => /\ startswith(Squeeze(parse_conditions(lines, 1).cond_str),
                               join(AGG_AND, before))
                 /\ endswith(Squeeze(parse_conditions(lines, 1).cond_str),
                             join(agg, after))
       /\ \A items \in Docs(PlainItems, 3) :
              lines = <<L_IF>> \o items \o <<L_THEN, L_R>>
              => Squeeze(parse_conditions(lines, 1).cond_str) = join(AGG_AND, items)

(***************************************************************************)
(* C17.  In a flat block joined by '&&' (no guide phrase, or the AND guide *)
(* phrase first) the line 'a or b' gives its two alternatives joined by    *)
(* '||' as one unit that stays grouped, in parentheses, among the other    *)
(* items: 'a or b' followed by c gives (a || b) && c.  (Blanks are left    *)
(* out of the comparison.)                                                 *)
(***************************************************************************)
C17_AlternativesStayGrouped ==
    blk.at = 0
    => \A guide \in {<<>>, <<GUIDE_ALL>>} :
       \A before \in Docs(PlainItems, 1) : \A after \in Docs(PlainItems, 1) :
           (/\ lines = <<L_IF>> \o guide \o before \o <<L_A_OR_B>> \o after
                       \o <<L_THEN, L_R>>
            /\ before \o after # <<>>)
           => Squeeze(parse_conditions(lines, 1).cond_str) =
                 join(AGG_AND,
                      before \o <<Squeeze(Grouped(AGG_OR, <<L_A, L_B>>))>> \o after)

\* the text of an initial condition before its last '=' and the text after it
BeforeFinalEq(init) ==
    LET parts == split(init, <<"=">>)
    IN  join(<<"=">>, SubSeq(parts, 1, Len(parts) - 1))

AfterFinalEq(init) ==
    LET parts == split(init, <<"=">>)
    IN  parts[Len(parts)]

(***************************************************************************)
(* C18.  When the initial condition of a block holds more than one '=',    *)
(* the text after the last '=' is the value: if it holds slashes, the      *)
(* block emits a record for every alternative and every branch, and if it  *)
(* holds none, a record for every branch with the initial condition as it  *)
(* is; in both cases the initial condition of every record keeps the text  *)
(* before the last '='.                                                    *)
(***************************************************************************)
C18_FinalEquals ==
    (/\ blk.at >= 0
     /\ ~blk.raises
     /\ Len(split(blk.hil_init, <<"=">>)) > 2)
    => LET head == strip(BeforeFinalEq(blk.hil_init))
           value == strip(AfterFinalEq(blk.hil_init))
           b == Len(Branches(blk.cond_str))
       IN  /\ \A j \in 1..Len(blk.new_rows) : startswith(blk.new_rows[j][3], head)
           /\ contains(value, <<"/">>)
              => Len(blk.new_rows) = Len(split(value, <<"/">>)) * b
           /\ ~contains(value, <<"/">>)
              => /\ Len(blk.new_rows) = b
                 /\ \A j \in 1..b : blk.new_rows[j][3] = blk.hil_init

(***************************************************************************)
(* C19.  A block with no heading on the stack above it whose lines, from   *)
(* the one after IF to the one its results end at, are only blank lines    *)
(* and THEN lines, so that it has neither a condition nor a result, emits  *)
(* exactly one record, and the five fields of that record are all the      *)
(* empty string.                                                           *)
(***************************************************************************)
C19_EmptyRecord ==
    (/\ blk.at >= 0
     /\ blk.stack = <<>>
     /\ \A k \in (blk.at + 1)..(blk.next_idx - 1) :
            IsBlank(Line(k)) \/ strip(Line(k)) = KW_THEN)
    => blk.new_rows = <<<<<<>>, <<>>, <<>>, <<>>, <<>>>>>>

(***************************************************************************)
(* Documents of headings with one-component and two-component numbers.     *)
(***************************************************************************)
\* "1 T"
H1_ONE == <<"1", " ", "T">>

\* "2 N"
H1_TWO == <<"2", " ", "N">>

\* "1.1 A"
H2_FIRST == <<"1", ".", "1", " ", "A">>

TopVocabulary == {H1_ONE, H2_FIRST, H2_PLAIN, H1_TWO, L_IF}

InitTop == StartOn(Docs(TopVocabulary, MaxHeadLines))

SpecTop == InitTop /\ [][Next]_vars

\* the numbers of the headings on the stack, by level
StackNumbers == [k \in DOMAIN stack |-> stack[k].num]

(***************************************************************************)
(* C20.  While the main loop goes through the headings '1 T', '1.1 A',     *)
(* '1.2 B' and '2 N', in this order, the stack holds just after '1.2 B'    *)
(* exactly the heading 1 at level 1 and the heading 1.2 at level 2, and    *)
(* just after '2 N' exactly the heading 2 at level 1: a number of one      *)
(* component is a heading of level 1.                                      *)
(***************************************************************************)
C20_TopLevelHeadings ==
    lines = <<H1_ONE, H2_FIRST, H2_PLAIN, H1_TWO>>
    => /\ i = 3 => StackNumbers = (1 :> <<"1">>) @@ (2 :> <<"1", ".", "2">>)
       /\ i = 4 => StackNumbers = (1 :> <<"2">>)

(***************************************************************************)
(* Documents for the loops: every sequence of at most MaxLoopLines lines   *)
(* over IF, THEN, the bare OR guide phrase, a numbered branch header, an   *)
(* indented sub-item, a plain item, a blank line and a heading, so that the *)
(* flat                                                                    *)
(* scan, the collection of sub-items, the look-ahead after the OR phrase,  *)
(* the nested routine, the forward search for THEN and parse_results all   *)
(* run into every other kind of line and into the end of the input.        *)
(***************************************************************************)
MaxLoopLines == 4

LoopVocabulary ==
    {L_IF, L_THEN, GUIDE_ANY, BranchHeader(1), L_SUB_P, L_A, L_BLANK, H2_PLAIN}

InitLoops == StartOn(Docs(LoopVocabulary, MaxLoopLines))

\* the main loop is at a line that is neither a heading nor an IF line
AtOther ==
    /\ status = "running"
    /\ i < Len(lines)
    /\ ~is_heading(Line(i)).ok
    /\ strip(Line(i)) # KW_IF

\* extract_rows is one sequential call: while it is in its loop its next
\* statement is executed, so a step that is possible is eventually taken.
\* The last three conjuncts are the weak fairness of ScanHeading, ScanIf and
\* ScanOther with their enabling conditions written out: ScanHeading is
\* possible exactly when AtHeading holds and ScanIf when AtIf holds, and
\* each changes the cursor or the status; ScanOther is possible when AtOther
\* holds and is a step that changes the state when it moves the cursor.
SpecLoops ==
    /\ InitLoops
    /\ [][Next]_vars
    /\ WF_vars(Return)
    /\ ([]<>~AtHeading \/ []<><<ScanHeading>>_vars)
    /\ ([]<>~AtIf \/ []<><<ScanIf>>_vars)
    /\ ([]<>~(AtOther /\ AfterOther(i) # i) \/ []<><<ScanOther>>_vars)

(***************************************************************************)
(* C21.  extract_rows terminates on every finite input: every iteration    *)
(* of the main loop that goes on leaves the cursor strictly greater than   *)
(* it found it, the block of an IF line ends beyond the IF line (so every  *)
(* inner loop of parse_conditions and parse_results has come to an end     *)
(* without a read outside the line array), and the call eventually leaves  *)
(* its loop.                                                               *)
(***************************************************************************)
C21_Terminates ==
    /\ [][/\ (status = "running" /\ status' = "running") => i' > i
          /\ (blk' # blk /\ ~blk'.raises)
                => (blk'.at = i /\ blk'.idx_at_then > i /\ blk'.next_idx >= blk'.idx_at_then)]_vars
    /\ <>(status # "running")

\* a scan that returned after a block whose look-ahead met the end of the
\* input before any THEN
C21_Witness ==
    /\ status = "returned"
    /\ blk.at >= 0
    /\ blk.idx_at_then >= Len(lines)
    /\ Len(lines) = MaxLoopLines

\* the heading extract_rows builds the test point from: the deepest heading
\* of st with an id, the deepest heading when none has an id
ChosenHeading(st) ==
    IF WithId(st) # {} THEN st[Deepest(WithId(st))] ELSE st[Deepest(DOMAIN st)]

\* the text after the first space of text, text itself when it has no space
AfterFirstSpace(text) ==
    IF \E k \in 1..Len(text) : text[k] = " "
    THEN SubSeq(text, 1 + (CHOOSE k \in 1..Len(text) :
                              /\ text[k] = " "
                              /\ \A m \in 1..(k - 1) : text[m] # " "),
                Len(text))
    ELSE text

IfLines == {m \in 0..(Len(lines) - 1) : strip(Line(m)) = KW_IF}

(***************************************************************************)
(* C28.  Every line whose trimmed text is exactly IF begins a block of its *)
(* own: no IF line lies among the lines that the block of an earlier IF    *)
(* line consumed as conditions or results, also when that block has no     *)
(* THEN, and the scan returns at least one record for each IF line.        *)
(***************************************************************************)
C28_EveryIfBeginsBlock ==
    /\ blk.at >= 0 =>
           \A m \in IfLines : ~(blk.at < m /\ m < blk.next_idx)
    /\ status = "returned" => Len(rows) >= Cardinality(IfLines)

\* the letters of a text that are names of items of the documents, in order
ItemLetters(text) == SelectSeq(text, LAMBDA ch : ch \in {"a", "p", "q", "x"})

\* the letters of the lines of index k..(m - 1), in order
RECURSIVE LettersOfLines(_, _)
LettersOfLines(k, m) ==
    IF k >= m THEN <<>> ELSE ItemLetters(Line(k)) \o LettersOfLines(k + 1, m)

(***************************************************************************)
(* C29.  In a block handled by the flat scan that ends at the first THEN   *)
(* line after its IF line, every item line between IF and THEN (a line     *)
(* that is not blank, not a guide line and not a branch header)            *)
(* contributes its item to the condition expression exactly once, in the   *)
(* order of the document; in particular the line after a numbered branch   *)
(* header without indented sub-items is not skipped.                       *)
(***************************************************************************)
C29_EveryItemOnce ==
    (/\ blk.at >= 0
     /\ ~blk.nested
     /\ ThenLines(blk.at) # {}
     /\ blk.idx_at_then = Least(ThenLines(blk.at)))
    => ItemLetters(blk.cond_str) = LettersOfLines(blk.at + 1, blk.idx_at_then)

\* the index at which the conditions of the block of the IF line k should
\* end: the first THEN line after k, the end of the input without one
ConditionsEnd(k) ==
    IF ThenLines(k) # {} THEN Least(ThenLines(k)) ELSE Len(lines)

(***************************************************************************)
(* C30.  In a block handled by the nested routine every branch header      *)
(* between the top-level guide phrase and THEN that has an indented        *)
(* sub-item directly after it contributes its own parenthesised group to   *)
(* the condition expression, whatever other non-blank lines (such as an    *)
(* unnumbered, non-indented note) stand between two branches.              *)
(***************************************************************************)
C30_EveryBranchGrouped ==
    (blk.at >= 0 /\ blk.nested) =>
        \A m \in (blk.at + 2)..(ConditionsEnd(blk.at) - 2) :
            (BRANCH_HEADER_RE(Line(m)) /\ IndentedLine(Line(m + 1)))
            => contains(blk.cond_str, <<"(">> \o strip(Line(m + 1)))

(***************************************************************************)
(* The normaliser on its own: normalize_explanation_suffix,                *)
(* handle_parse_conditions_item and normalize_text applied to one text.    *)
(* The text is the only line of lines, the results are put in rows.        *)
(***************************************************************************)
\* the signal of the texts
SIGNAL == <<"{", "X", "}">>

\* the most words of a description
MaxWords == 2

\* the most alternatives of a slash-separated value
MaxSlashValues == 3

Words == {<<"f", "a", "s", "t">>, <<"l", "a", "n", "e">>}

\* the descriptions of one word and more, the words joined by one space
Descriptions ==
    {join(<<" ">>, ws) : ws \in UNION {[1..n -> Words] : n \in 1..MaxWords}}

\* a decimal numeral, a hex literal, a number with its unit and a word
CanonicalValues == {<<"1">>, <<"0", "x", "1", "F">>, <<"1", "3", "5", " ", "k", "p", "h">>, <<"A", "c", "t", "i", "v", "e">>}

\* "{signal} OP value: description"
Canonical(sig, op, val, descr) ==
    sig \o <<" ">> \o op \o <<" ">> \o val \o <<":", " ">> \o descr

CanonicalTexts ==
    {Canonical(SIGNAL, EXPL_OPERATORS[k], val, descr) :
        k \in 1..Len(EXPL_OPERATORS), val \in CanonicalValues, descr \in Descriptions}

Numerals == {<<"1", "3", "5">>, <<"1", ".", "5">>}

\* what follows the unit: nothing, or a description in one of the ways the
\* normaliser knows
UnitTails == {<<>>, <<" ", "f", "a", "s", "t">>, <<":", " ", "f", "a", "s", "t">>, <<" ", "(", "f", "a", "s", "t", ")">>}

\* a comparison whose value is a numeral written right before a unit
UnitText(num, unit, tail) == SIGNAL \o <<" ", ">", " ">> \o num \o unit \o tail

UnitTexts ==
    {UnitText(num, UNITS[k], tail) :
        num \in Numerals, k \in 1..Len(UNITS), tail \in UnitTails}

\* the operators of the slash texts, as they are written
SlashOperators == {<<"=">>, <<" ", "=", " ">>, <<"=", "=">>, <<" ", "=", "=", " ">>, <<" ", ">", "=", " ">>}

SlashValues == {<<"1">>, <<"0", "x", "2">>, <<"A">>}

\* "{X} OP v1/v2/../vn"
SlashText(op, vs) == SIGNAL \o op \o join(<<"/">>, vs)

SlashTexts ==
    {SlashText(op, vs) :
        op \in SlashOperators, vs \in UNION {[1..n -> SlashValues] : n \in 2..MaxSlashValues}}

\* a slash inside parentheses, and slashes inside a unit
NoSplitTexts == {<<"{", "X", "}", "=", "0", "x", "3", "(", "R", "e", "s", "u", "m", "e", "/", "+", ")">>, <<"{", "X", "}", " ", ">", " ", "3", "m", "/", "s">>, <<"{", "X", "}", "=", "3", "k", "m", "/", "h">>, <<"{", "X", "}", " ", "=", " ", "3", " ", "m", "/", "s">>}

\* texts with and without a signal in braces, with and without a comparison
PlainTexts ==
    {h \o m \o t :
        h \in {<<>>, <<" ">>, <<"p", " ">>},
        m \in {SIGNAL, <<"X">>, <<"{", "}">>, <<"{", "X">>, <<"u3010", "R", "u3011", "{", "X", "}">>},
        t \in {<<>>, <<" ">>, <<" ", "i", "s", " ", "o", "n">>, <<" ", "=", " ", "1">>, <<"=", "1", "(", "a", ")">>, <<" ", "=", " ", "1", " ", "(", "a", ")">>, <<"uFF1A", "a">>, <<" ", " ", "=", " ", " ", "(", "a", ")">>}}

NormTexts == CanonicalTexts \cup UnitTexts \cup SlashTexts \cup NoSplitTexts \cup PlainTexts

InitNorm ==
    /\ lines \in {<<text>> : text \in NormTexts}
    /\ i = 0
    /\ stack = <<>>
    /\ rows = <<>>
    /\ status = "text"
    /\ blk = NoBlock
    /\ hlog = <<>>
    /\ peer = NoPeer

\* rows = [normalize_explanation_suffix(text)]
Normalize ==
    /\ status = "text"
    /\ rows' = <<normalize_explanation_suffix(Line(0))>>
    /\ status' = "normalized"
    /\ UNCHANGED <<lines, i, stack, blk, hlog, peer>>

\* rows = [handle_parse_conditions_item(text)]
HandleItem ==
    /\ status = "text"
    /\ rows' = <<handle_parse_conditions_item(Line(0))>>
    /\ status' = "handled"
    /\ UNCHANGED <<lines, i, stack, blk, hlog, peer>>

\* rows = [normalize_text(text)]
NormalizeText ==
    /\ status = "text"
    /\ rows' = <<normalize_text(Line(0))>>
    /\ status' = "plain"
    /\ UNCHANGED <<lines, i, stack, blk, hlog, peer>>

\* rows.append(normalize_text(rows[-1]))
NormalizeTextAgain ==
    /\ status = "plain"
    /\ rows' = Append(rows, normalize_text(rows[Len(rows)]))
    /\ status' = "plain again"
    /\ UNCHANGED <<lines, i, stack, blk, hlog, peer>>

NextNorm == Normalize \/ HandleItem \/ NormalizeText \/ NormalizeTextAgain

SpecNorm == InitNorm /\ [][NextNorm]_vars

C24_UnitStaysInValue ==
    \A num \in Numerals, k \in 1..Len(UNITS), tail \in UnitTails :
        (status = "normalized" /\ Line(0) = UnitText(num, UNITS[k], tail))
        => /\ contains(rows[1], num \o <<" ">> \o UNITS[k])
           /\ ~contains(rows[1], <<":", " ">> \o UNITS[k])

\* the patterns of _normalize_explanation_suffix_once
REWRITE_PATTERNS ==
    <<pattern_sig_annot_full, pattern_sig_annot_simple, pattern_paren, pattern_nospace,
      pattern_comma, pattern_quoted, pattern_space>>

\* whether one of the rewrite patterns matches somewhere in text
Rewritable(text) ==
    \E k \in 1..Len(REWRITE_PATTERNS) : search(REWRITE_PATTERNS[k], text, 1).ok

\* whether text has a signal in braces with a comparison operator somewhere
\* after it
SignalThenOperator(text) ==
    \E p \in 1..Len(text) :
        /\ MatchAt(Braced, text, p).ok
        /\ \E k \in 1..Len(EXPL_OPERATORS) :
                contains(From(text, MatchAt(Braced, text, p).end), EXPL_OPERATORS[k])

\* C25: normalize_explanation_suffix returns a text for every text, and the
\* text itself when none of the rewrite patterns matches it, in particular
\* when it has no signal in braces followed by a comparison operator
C25_PassThrough ==
    status = "normalized"
    => /\ \A k \in 1..Len(rows[1]) : rows[1][k] \in STRING
       /\ (~Rewritable(Line(0)) \/ ~SignalThenOperator(Line(0))) => rows[1] = Line(0)

C25_Witness ==
    /\ status = "normalized"
    /\ Line(0) = <<" ", "{", "X", "}", " ", "i", "s", " ", "o", "n">>
    /\ ~Rewritable(Line(0))
    /\ rows = <<Line(0)>>

\* "{X} OP v" for each of the values vs
Comparisons(op, vs) ==
    [n \in 1..Len(vs) |-> SIGNAL \o <<" ">> \o strip(op) \o <<" ">> \o vs[n]]

\* C27: handle_parse_conditions_item turns "{X} OP v1/v2/../vn" into
\* "({X} OP v1 || {X} OP v2 || .. || {X} OP vn)", the values in their order,
\* and does not split at a slash inside parentheses or inside a unit
C27_SlashExpansion ==
    /\ \A op \in SlashOperators :
       \A vs \in UNION {[1..n -> SlashValues] : n \in 2..MaxSlashValues} :
            (status = "handled" /\ Line(0) = SlashText(op, vs))
            => rows[1] = <<"(">> \o join(<<" ", "|", "|", " ">>, Comparisons(op, vs)) \o <<")">>
    /\ (status = "handled" /\ Line(0) \in NoSplitTexts) => ~contains(rows[1], <<"|", "|">>)

(***************************************************************************)
(* Two invocations of extract_rows.  lines, stack, rows and i are locals   *)
(* that every call creates anew, so an invocation that is not running      *)
(* keeps its own values of them: peer is the frame of that invocation.     *)
(* Switch is the change of the running invocation between two steps of the *)
(* loop; a scan that runs after another one has finished, and the steps of *)
(* two scans in any order, are behaviours of SpecPair.                     *)
(***************************************************************************)
\* the frame of the running invocation
Frame ==
    [lines |-> lines, i |-> i, stack |-> stack, rows |-> rows, status |-> status,
     blk |-> blk, hlog |-> hlog]

\* the frame of an invocation that has just been called on the document d
Called(d) ==
    [lines |-> d, i |-> 0, stack |-> <<>>, rows |-> <<>>, status |-> "running",
     blk |-> NoBlock, hlog |-> <<>>]

\* the change of invocation with the hierarchy stack being one object that
\* both invocations use
SwitchSharingStack ==
    /\ peer # NoPeer
    /\ lines' = peer.lines
    /\ i' = peer.i
    /\ stack' = stack
    /\ rows' = peer.rows
    /\ status' = peer.status
    /\ blk' = peer.blk
    /\ hlog' = peer.hlog
    /\ peer' = Frame

\* the other invocation goes on: every local is the one of its own frame
Switch ==
    /\ peer # NoPeer
    /\ lines' = peer.lines
    /\ i' = peer.i
    /\ stack' = peer.stack
    /\ rows' = peer.rows
    /\ status' = peer.status
    /\ blk' = peer.blk
    /\ hlog' = peer.hlog
    /\ peer' = Frame

\* one block "IF, x, THEN, result line"
PairBlock(r) == <<L_IF, L_X, L_THEN, r>>

\* documents of one or two blocks under different headings
PairDocs ==
    {pre \o PairBlock(r) \o suf :
        pre \in {<<H2_ID>>, <<L_X, H2_ID, H3_ID>>, <<H3_PLAIN>>},
        r \in {L_R, R_FROM_TO},
        suf \in {<<>>, <<H2_PLAIN>> \o PairBlock(L_R)}}

InitPair ==
    /\ lines \in PairDocs
    /\ i = 0
    /\ stack = <<>>
    /\ rows = <<>>
    /\ status = "running"
    /\ blk = NoBlock
    /\ hlog = <<>>
    /\ peer \in {Called(d) : d \in PairDocs}

NextPair == Next \/ Switch

SpecPair == InitPair /\ [][NextPair]_vars

\* the loop of extract_rows run alone from the line k with the stack st and
\* the rows rs: how it ends and what it returns
RECURSIVE ScanFrom(_, _, _, _)
ScanFrom(ls, k, st, rs) ==
    IF k >= Len(ls) THEN [status |-> "returned", rows |-> rs]
    ELSE IF is_heading(At(ls, k)).ok
         THEN ScanFrom(ls, k + 1, PushHeading(st, is_heading(At(ls, k))), rs)
    ELSE IF strip(At(ls, k)) = KW_IF
         THEN With(if_block(ls, k, st), LAMBDA b :
                  IF b.raises THEN [status |-> "raised", rows |-> rs \o b.new_rows]
                  ELSE ScanFrom(ls, b.next_idx, st, rs \o b.new_rows))
    ELSE ScanFrom(ls, k + 1, st, rs)

\* extract_rows called on the lines of a document, with no other call
extract_rows(ls) == ScanFrom(ls, 0, <<>>, <<>>)

\* what the invocation of the frame f returns if it runs alone from now on
Outcome(f) ==
    IF f.status = "running" THEN ScanFrom(f.lines, f.i, f.stack, f.rows)
    ELSE [status |-> f.status, rows |-> f.rows]

\* C22: scans share no state.  Whatever the order of the steps of two
\* invocations, the cursor, the stack and the rows of each are those of a
\* scan of its document that runs alone: what each returns is what
\* extract_rows returns for its document with no other call.
C22_ScansShareNoState ==
    /\ Outcome(Frame) = extract_rows(lines)
    /\ peer # NoPeer => Outcome(peer) = extract_rows(peer.lines)

\* one scan has returned its rows while the other one, of another document,
\* is in the middle of its lines with another stack
C22_Witness ==
    /\ status = "returned"
    /\ rows # <<>>
    /\ peer # NoPeer
    /\ peer.status = "running"
    /\ peer.lines # lines
    /\ 0 < peer.i /\ peer.i < Len(peer.lines)
    /\ peer.stack # <<>>
    /\ peer.stack # stack
    /\ peer.rows # <<>>

====
